---- MODULE Spec2Model ----
(***************************************************************************)
(* Booking.com scraper: the backend orchestrator of scraper/booking.js     *)
(* (scrapeBookingHotels, scrapeHotelDetails) and the backends it drives    *)
(* (scrapeWithZyte, scrapeWithPuppeteer, scrapeHotelDetailsWithZyte,       *)
(* scrapeHotelDetailsWithPuppeteer).  One request runs per behaviour; each *)
(* await of the source is one step.                                        *)
(***************************************************************************)
EXTENDS Integers, Sequences, FiniteSets, TLC

\* Longest hotel list a backend extraction yields in the model.
MaxHotels == 2

\* cardSelectors has five entries (booking.js:401-407).
NumCardSelectors == 5

Records == {"h1", "h2"}

HotelLists == UNION {[1..n -> Records] : n \in 0..MaxHotels}

\* Error messages are sequences of message parts, so that concatenation
\* ('...: ' + zyteError.message) keeps the original message.
ZyteError == <<"Zyte API error">>
TypeErrorLength == <<"Cannot read properties of undefined (reading 'length')">>
LaunchError == <<"Failed to launch the browser process">>
ProtocolError == <<"Protocol error">>
NavigationTimeout == <<"Navigation timeout exceeded">>
WaitTimeout == <<"Waiting failed: timeout exceeded">>
NoServiceMsg == <<"No scraping service configured for serverless environment. Please set ZYTE_API_KEY or BROWSERLESS_TOKEN environment variable in Appwrite Console.">>
NoFallbackPrefix == <<"Zyte API failed and no fallback available in serverless: ">>

VARIABLES
  cfg,        \* environment and request options, fixed for the request
  pc,         \* position of the orchestrator (scrapeBookingHotels / scrapeHotelDetails)
  hotels,     \* local `hotels` of scrapeBookingHotels
  debugInfo,  \* local `debugInfo` of scrapeBookingHotels
  result,     \* what the request resolved or rejected with
  calls,      \* history of backend invocations, in call order
  frame,      \* locals of the backend call in progress
  ret,        \* completion of the last backend call, not yet consumed
  browsers,   \* every browser session opened so far: "open" or "closed"
  http,       \* the HTTP entry point handling a request: body, stage, response
  builds,     \* the process's time zone and the buildSearchURL calls made so far
  canon,      \* one cleanHotelUrl call: its input and its result
  page,       \* one results page: its cards and the hotels extracted from them
  detail,     \* one hotel page: its markup and the details extracted from it
  overlay,    \* one dismissOverlays call: the page's overlays and the clicks made
  conc,       \* concurrent browser-driven calls and the sessions they opened
  auth        \* the password-reset codes, the clock and the last request served

\* The state of one scraper request (scrapeBookingHotels / scrapeHotelDetails).
reqVars == <<cfg, pc, hotels, debugInfo, result, calls, frame, ret, browsers>>

\* The state of the other components, untouched by a scraper request.
ext == <<http, builds, canon, page, detail, overlay, conc, auth>>

vars == <<reqVars, ext>>

\* A component that is not running.
Idle == [stage |-> "idle"]

-----------------------------------------------------------------------------
(* JavaScript objects are functions from field names to values.            *)

EmptyObject == [x \in {} |-> "undefined"]

\* { ...a, ...b }
Spread(a, b) ==
  [x \in (DOMAIN a) \cup (DOMAIN b) |-> IF x \in DOMAIN b THEN b[x] ELSE a[x]]

Has(obj, field) == field \in DOMAIN obj

-----------------------------------------------------------------------------
(* Configuration.                                                          *)

Configs ==
  [ request          : {"search", "detail"},
    isServerless     : BOOLEAN,    \* booking.js:15-18
    zyteApiKey       : BOOLEAN,    \* process.env.ZYTE_API_KEY is set
    browserlessToken : BOOLEAN,    \* process.env.BROWSERLESS_TOKEN is set
    envUseZyte       : BOOLEAN,    \* process.env.USE_ZYTE === 'true'
    optUseZyte       : BOOLEAN,    \* options.useZyte
    noRetry          : BOOLEAN ]   \* options.noRetry

\* const useZyte = options.useZyte || (zyteApiKey && process.env.USE_ZYTE === 'true')
useZyte(c) == c.optUseZyte \/ (c.zyteApiKey /\ c.envUseZyte)

\* if (useZyte && zyteApiKey)
ZyteFirst(c) == useZyte(c) /\ c.zyteApiKey

PuppeteerFirstUnguarded(c) == ~ZyteFirst(c)

\* else if (!isServerless || browserlessToken)
PuppeteerFirst(c) == ~ZyteFirst(c) /\ (~c.isServerless \/ c.browserlessToken)

SearchBrowserKindServerlessFirst(c) ==
  IF c.isServerless THEN "serverless"
  ELSE IF c.browserlessToken THEN "browserless"
  ELSE "local"

\* The browser scrapeWithPuppeteer opens: connect to Browserless when the
\* token is set, else the serverless Chromium, else the local browser.
SearchBrowserKind(c) ==
  IF c.browserlessToken THEN "browserless"
  ELSE IF c.isServerless THEN "serverless"
  ELSE "local"

\* scrapeHotelDetailsWithPuppeteer never connects to Browserless.
DetailBrowserKind(c) == IF c.isServerless THEN "serverless" ELSE "local"

-----------------------------------------------------------------------------
(* Backend calls.                                                          *)

NoRet == [kind |-> "none", hotels |-> <<>>, debugInfo |-> EmptyObject,
          name |-> "null", error |-> <<>>]

IdleFrame ==
  [ fn |-> "none", pos |-> "idle", browser |-> 0, navTimedOut |-> FALSE,
    sel |-> 0, foundSelector |-> 0, waitTimedOut |-> FALSE, extractionRan |-> FALSE,
    hotels |-> <<>>, name |-> "null", pending |-> NoRet ]

NewFrame(fn, pos) == [IdleFrame EXCEPT !.fn = fn, !.pos = pos]

NewCall(fn, kind) ==
  [ fn |-> fn, kind |-> kind, out |-> "pending", hotels |-> <<>>, name |-> "null",
    error |-> <<>>, session |-> 0, navTimedOut |-> FALSE, waitTimedOut |-> FALSE,
    extractionRan |-> FALSE ]

\* Outcome class of a completion, as the orchestrator can observe it.
OutcomeOf(r) ==
  IF r.kind = "throw" THEN "throw"
  ELSE IF r.kind = "returnBare" THEN "bare"
  ELSE IF r.kind = "returnDetail" THEN "detail"
  ELSE IF r.hotels = <<>> THEN "empty"
  ELSE "records"

\* The backend call in progress completes with r: the caller's await resumes.
Complete(r) ==
  /\ ret' = r
  /\ frame' = IdleFrame
  /\ calls' = [calls EXCEPT ![Len(calls)] =
                 [@ EXCEPT !.out = OutcomeOf(r), !.hotels = r.hotels,
                           !.name = r.name, !.error = r.error,
                           !.session = frame.browser,
                           !.navTimedOut = frame.navTimedOut,
                           !.waitTimedOut = frame.waitTimedOut,
                           !.extractionRan = frame.extractionRan]]

Return(h, d) == [NoRet EXCEPT !.kind = "return", !.hotels = h, !.debugInfo = d]
ReturnBare == [NoRet EXCEPT !.kind = "returnBare"]
ReturnDetail(n) == [NoRet EXCEPT !.kind = "returnDetail", !.name = n]
Throw(e) == [NoRet EXCEPT !.kind = "throw", !.error = e]

\* Invoke a backend: a new frame, one more entry in the call history.
Invoke(fn, kind, pos) ==
  /\ frame' = NewFrame(fn, pos)
  /\ calls' = Append(calls, NewCall(fn, kind))
  /\ ret' = NoRet

-----------------------------------------------------------------------------
(* debugInfo objects built by the backends.                                *)

\* booking.js:120-124
ZyteDebug ==
  [url |-> "data.url", contentLength |-> "zyte.length", title |-> "null"]

\* booking.js:430-439
PuppeteerDebugNoCards(isBlocked) ==
  [ title |-> "page.title", contentLength |-> "page.length",
    finalUrl |-> "page.url", isBlocked |-> isBlocked,
    error |-> IF isBlocked
              THEN <<"Rate limited or blocked by Booking.com">>
              ELSE <<"No hotel elements found after trying all selectors">> ]

\* booking.js:529-534
PuppeteerDebug ==
  [ title |-> "page.title", contentLength |-> "page.length",
    finalUrl |-> "page.url", screenshot |-> "null" ]

-----------------------------------------------------------------------------
(* scrapeWithZyte (booking.js:73-127): one HTTP call, no browser session.  *)

scrapeWithZyte ==
  /\ frame.fn = "scrapeWithZyte"
  /\ frame.pos = "fetch"
  /\ \/ Complete(Throw(ZyteError))           \* fetch rejects, or !response.ok
     \/ Complete(ReturnBare)                 \* redirected to the error page: return []
     \/ \E h \in HotelLists : Complete(Return(h, ZyteDebug))
  /\ UNCHANGED <<cfg, pc, hotels, debugInfo, result, browsers>>
  /\ UNCHANGED ext

\* scrapeHotelDetailsWithZyte (booking.js:1320-1346)
scrapeHotelDetailsWithZyte ==
  /\ frame.fn = "scrapeHotelDetailsWithZyte"
  /\ frame.pos = "fetch"
  /\ \/ Complete(Throw(ZyteError))
     \/ \E n \in {"null", "Hotel"} : Complete(ReturnDetail(n))
  /\ UNCHANGED <<cfg, pc, hotels, debugInfo, result, browsers>>
  /\ UNCHANGED ext

-----------------------------------------------------------------------------
(* The browser backends.  `browser` is assigned before the try block; every *)
(* exit from the try block runs the finally clause, which closes it.        *)

InBrowserCall(fn, pos) == frame.fn = fn /\ frame.pos = pos

Goto(pos) ==
  /\ frame' = [frame EXCEPT !.pos = pos]
  /\ UNCHANGED <<calls, ret, browsers>>

\* A return or throw inside try { ... } finally { await browser.close() }:
\* the completion is held while the finally clause runs.
Exit(r) ==
  /\ frame' = [frame EXCEPT !.pos = "closing", !.pending = r]
  /\ UNCHANGED <<calls, ret, browsers>>

\* puppeteer.launch / puppeteerCore.connect: throws, or yields a new session.
Launch ==
  \/ /\ Complete(Throw(LaunchError))
     /\ UNCHANGED browsers
  \/ /\ browsers' = Append(browsers, "open")
     /\ frame' = [frame EXCEPT !.browser = Len(browsers) + 1, !.pos = "setup"]
     /\ UNCHANGED <<calls, ret>>

\* finally { await browser.close(); }
BrowserClose ==
  /\ frame.pos = "closing"
  /\ frame.fn \in {"scrapeWithPuppeteer", "scrapeHotelDetailsWithPuppeteer"}
  /\ browsers' = [browsers EXCEPT ![frame.browser] = "closed"]
  /\ Complete(frame.pending)
  /\ UNCHANGED <<cfg, pc, hotels, debugInfo, result>>
  /\ UNCHANGED ext

\* dismissOverlays (booking.js:600-623): every error is swallowed.
dismissOverlays ==
  /\ frame.pos \in {"overlays1", "overlays2"}
  /\ Goto(IF frame.pos = "overlays1"
          THEN (IF frame.fn = "scrapeWithPuppeteer" THEN "waitCards" ELSE "scroll")
          ELSE (IF frame.fn = "scrapeWithPuppeteer" THEN "waitPrice" ELSE "content"))
  /\ UNCHANGED <<cfg, pc, hotels, debugInfo, result>>
  /\ UNCHANGED ext

-----------------------------------------------------------------------------
(* scrapeWithPuppeteer (booking.js:259-540).                               *)

BrowserStep == UNCHANGED <<cfg, pc, hotels, debugInfo, result>>

\* booking.js:266-314
scrapeWithPuppeteer_Launch ==
  /\ InBrowserCall("scrapeWithPuppeteer", "launch")
  /\ Launch
  /\ BrowserStep
  /\ UNCHANGED ext

\* booking.js:317-364: newPage, setUserAgent, setViewport, setCookie,
\* setExtraHTTPHeaders, setRequestInterception
scrapeWithPuppeteer_Setup ==
  /\ InBrowserCall("scrapeWithPuppeteer", "setup")
  /\ \/ Goto("goto")
     \/ Exit(Throw(ProtocolError))
  /\ BrowserStep
  /\ UNCHANGED ext

\* booking.js:370-376: a navigation error is caught and logged
SearchNavigationAborts ==
  \/ Goto("inspect")
  \/ Exit(Throw(NavigationTimeout))

SearchNavigation ==
  \/ Goto("inspect")
  \/ /\ frame' = [frame EXCEPT !.navTimedOut = TRUE, !.pos = "inspect"]
     /\ UNCHANGED <<calls, ret, browsers>>

scrapeWithPuppeteer_Goto ==
  /\ InBrowserCall("scrapeWithPuppeteer", "goto")
  /\ SearchNavigation
  /\ BrowserStep
  /\ UNCHANGED ext

\* booking.js:379-391: page.content(), page.title()
scrapeWithPuppeteer_Inspect ==
  /\ InBrowserCall("scrapeWithPuppeteer", "inspect")
  /\ \/ /\ frame' = [frame EXCEPT !.pos = "overlays1", !.sel = 1]
        /\ UNCHANGED <<calls, ret, browsers>>
     \/ Exit(Throw(ProtocolError))
  /\ BrowserStep
  /\ UNCHANGED ext

\* booking.js:421-440: if (!foundSelector) return { hotels: [], debugInfo }
ReturnNoCardsOutsideTry(isBlocked) ==
  /\ Complete(Return(<<>>, PuppeteerDebugNoCards(isBlocked)))
  /\ UNCHANGED browsers

ReturnNoCards(isBlocked) ==
  /\ frame' = [frame EXCEPT !.waitTimedOut = TRUE, !.pos = "closing",
                 !.pending = Return(<<>>, PuppeteerDebugNoCards(isBlocked))]
  /\ UNCHANGED <<calls, ret, browsers>>

\* booking.js:409-440: try the card selectors in order; a timeout moves on to
\* the next selector, and after the last one the call returns no hotels.
scrapeWithPuppeteer_WaitCards ==
  /\ InBrowserCall("scrapeWithPuppeteer", "waitCards")
  /\ \/ /\ frame' = [frame EXCEPT !.foundSelector = frame.sel, !.pos = "scroll"]
        /\ UNCHANGED <<calls, ret, browsers>>
     \/ /\ frame.sel < NumCardSelectors
        /\ frame' = [frame EXCEPT !.sel = @ + 1, !.waitTimedOut = TRUE]
        /\ UNCHANGED <<calls, ret, browsers>>
     \/ /\ frame.sel = NumCardSelectors
        /\ \E isBlocked \in BOOLEAN : ReturnNoCards(isBlocked)
  /\ BrowserStep
  /\ UNCHANGED ext

\* booking.js:444-445: autoScroll evaluates in the page
scrapeWithPuppeteer_Scroll ==
  /\ InBrowserCall("scrapeWithPuppeteer", "scroll")
  /\ \/ Goto("overlays2")
     \/ Exit(Throw(ProtocolError))
  /\ BrowserStep
  /\ UNCHANGED ext

\* booking.js:451-456: the price selector may time out
scrapeWithPuppeteer_WaitPrice ==
  /\ InBrowserCall("scrapeWithPuppeteer", "waitPrice")
  /\ \/ Goto("extract")
     \/ /\ frame' = [frame EXCEPT !.waitTimedOut = TRUE, !.pos = "extract"]
        /\ UNCHANGED <<calls, ret, browsers>>
  /\ BrowserStep
  /\ UNCHANGED ext

\* booking.js:460-520: page.evaluate over the cards
scrapeWithPuppeteer_Extract ==
  /\ InBrowserCall("scrapeWithPuppeteer", "extract")
  /\ \/ \E h \in HotelLists :
          /\ frame' = [frame EXCEPT !.hotels = h, !.extractionRan = TRUE,
                                    !.pos = "finalize"]
          /\ UNCHANGED <<calls, ret, browsers>>
     \/ Exit(Throw(ProtocolError))
  /\ BrowserStep
  /\ UNCHANGED ext

\* booking.js:523-536: clean the links, collect debugInfo, return
scrapeWithPuppeteer_Finalize ==
  /\ InBrowserCall("scrapeWithPuppeteer", "finalize")
  /\ \/ Exit(Return(frame.hotels, PuppeteerDebug))
     \/ Exit(Throw(ProtocolError))          \* await page.title()
  /\ BrowserStep
  /\ UNCHANGED ext

-----------------------------------------------------------------------------
(* scrapeHotelDetailsWithPuppeteer (booking.js:1351-1641).                 *)

\* booking.js:1356-1390
scrapeHotelDetailsWithPuppeteer_Launch ==
  /\ InBrowserCall("scrapeHotelDetailsWithPuppeteer", "launch")
  /\ Launch
  /\ BrowserStep
  /\ UNCHANGED ext

\* booking.js:1393-1407
scrapeHotelDetailsWithPuppeteer_Setup ==
  /\ InBrowserCall("scrapeHotelDetailsWithPuppeteer", "setup")
  /\ \/ Goto("goto")
     \/ Exit(Throw(ProtocolError))
  /\ BrowserStep
  /\ UNCHANGED ext

\* booking.js:1409-1410: page.goto is not wrapped, its timeout leaves the try
DetailNavigation ==
  \/ Goto("waitBody")
  \/ /\ frame' = [frame EXCEPT !.navTimedOut = TRUE, !.pos = "closing",
                                !.pending = Throw(NavigationTimeout)]
     /\ UNCHANGED <<calls, ret, browsers>>

scrapeHotelDetailsWithPuppeteer_Goto ==
  /\ InBrowserCall("scrapeHotelDetailsWithPuppeteer", "goto")
  /\ DetailNavigation
  /\ BrowserStep
  /\ UNCHANGED ext

\* A wait wrapped in try/catch: on timeout the call goes on to `next`.
TolerantWait(next) ==
  \/ Goto(next)
  \/ /\ frame' = [frame EXCEPT !.waitTimedOut = TRUE, !.pos = next]
     /\ UNCHANGED <<calls, ret, browsers>>

\* booking.js:1412-1417: waitForSelector('body')
scrapeHotelDetailsWithPuppeteer_WaitBody ==
  /\ InBrowserCall("scrapeHotelDetailsWithPuppeteer", "waitBody")
  /\ TolerantWait("waitName")
  /\ BrowserStep
  /\ UNCHANGED ext

\* booking.js:1419-1425: waitForSelector(hotel name)
scrapeHotelDetailsWithPuppeteer_WaitName ==
  /\ InBrowserCall("scrapeHotelDetailsWithPuppeteer", "waitName")
  /\ TolerantWait("overlays1")
  /\ BrowserStep
  /\ UNCHANGED ext

\* booking.js:1434-1474: scrolling evaluates in the page
scrapeHotelDetailsWithPuppeteer_Scroll ==
  /\ InBrowserCall("scrapeHotelDetailsWithPuppeteer", "scroll")
  /\ \/ Goto("hydration")
     \/ Exit(Throw(ProtocolError))
  /\ BrowserStep
  /\ UNCHANGED ext

\* booking.js:1478-1492: waitForFunction(surroundings hydrated)
scrapeHotelDetailsWithPuppeteer_Hydration ==
  /\ InBrowserCall("scrapeHotelDetailsWithPuppeteer", "hydration")
  /\ TolerantWait("showMore")
  /\ BrowserStep
  /\ UNCHANGED ext

\* booking.js:1497-1515: clicking "Show more" is wrapped in try/catch
scrapeHotelDetailsWithPuppeteer_ShowMore ==
  /\ InBrowserCall("scrapeHotelDetailsWithPuppeteer", "showMore")
  /\ Goto("overlays2")
  /\ BrowserStep
  /\ UNCHANGED ext

\* booking.js:1523-1526: scrollBy, page.content()
scrapeHotelDetailsWithPuppeteer_Content ==
  /\ InBrowserCall("scrapeHotelDetailsWithPuppeteer", "content")
  /\ \/ Goto("extract")
     \/ Exit(Throw(ProtocolError))
  /\ BrowserStep
  /\ UNCHANGED ext

\* booking.js:1535-1636: extractHotelDetailsFromHTML, the browser-side area
\* info (wrapped in try/catch), return details
scrapeHotelDetailsWithPuppeteer_Extract ==
  /\ InBrowserCall("scrapeHotelDetailsWithPuppeteer", "extract")
  /\ \E n \in {"null", "Hotel"} :
       /\ frame' = [frame EXCEPT !.name = n, !.extractionRan = TRUE,
                                 !.pos = "closing", !.pending = ReturnDetail(n)]
       /\ UNCHANGED <<calls, ret, browsers>>
  /\ BrowserStep
  /\ UNCHANGED ext

-----------------------------------------------------------------------------
(* scrapeBookingHotels (booking.js:635-720).                               *)

NoResult == [status |-> "none", hotels |-> <<>>, debugInfo |-> EmptyObject,
             name |-> "null", error |-> <<>>]

Awaiting(at) == pc = at /\ ret.kind # "none"

Consume ==
  /\ ret' = NoRet
  /\ UNCHANGED <<calls, frame, browsers>>

\* booking.js:707-714: return { hotels, debugInfo: { method, url, count, ...debugInfo } }
Finish(h, d) ==
  /\ result' = [NoResult EXCEPT
                  !.status = "resolved",
                  !.hotels = h,
                  !.debugInfo =
                     Spread([ method |-> IF useZyte(cfg) THEN "zyte" ELSE "puppeteer",
                              url |-> "searchURL",
                              count |-> Len(h) ], d)]
  /\ pc' = "done"

\* A mutation of CatchOuter: the outer catch rethrows, as the one of
\* scrapeHotelDetails does.
CatchOuterRethrows(e) ==
  /\ result' = [NoResult EXCEPT !.status = "rejected", !.error = e]
  /\ pc' = "done"

\* booking.js:715-719: the outer catch returns the error inside debugInfo
CatchOuter(e) ==
  /\ result' = [NoResult EXCEPT
                  !.status = "resolved",
                  !.hotels = <<>>,
                  !.debugInfo = [error |-> e, stack |-> "error.stack",
                                 url |-> "searchURL"]]
  /\ pc' = "done"

\* booking.js:643-705: choose the first backend
scrapeBookingHotels_Start ==
  /\ pc = "start"
  /\ cfg.request = "search"
  /\ IF ZyteFirst(cfg)
       THEN /\ Invoke("scrapeWithZyte", "zyte", "fetch")
            /\ pc' = "await655"
            /\ UNCHANGED result
       ELSE IF PuppeteerFirst(cfg)
       THEN /\ Invoke("scrapeWithPuppeteer", SearchBrowserKind(cfg), "launch")
            /\ pc' = "await680"
            /\ UNCHANGED result
       ELSE /\ CatchOuter(NoServiceMsg)
            /\ UNCHANGED <<calls, frame, ret>>
  /\ UNCHANGED <<cfg, hotels, debugInfo, browsers>>
  /\ UNCHANGED ext

\* booking.js:665-675: catch (zyteError) around the whole Zyte branch
CatchZyteError(e) ==
  IF ~cfg.isServerless
    THEN /\ Invoke("scrapeWithPuppeteer", SearchBrowserKind(cfg), "launch")
         /\ pc' = "await669"
         /\ UNCHANGED <<result, browsers>>
    ELSE /\ CatchOuter(NoFallbackPrefix \o e)
         /\ Consume

\* booking.js:659: if (hotels.length === 0 && !isServerless)
ZyteFallbackWanted(h, c) == h = <<>> /\ ~c.isServerless

\* booking.js:655-664, after await scrapeWithZyte.  A bare [] result makes
\* result.hotels undefined, and hotels.length throws a TypeError into the
\* catch (zyteError) clause.
scrapeBookingHotels_AfterZyte ==
  /\ Awaiting("await655")
  /\ CASE ret.kind = "throw" ->
            /\ CatchZyteError(ret.error)
            /\ UNCHANGED <<hotels, debugInfo>>
       [] ret.kind = "returnBare" ->
            /\ CatchZyteError(TypeErrorLength)
            /\ UNCHANGED <<hotels, debugInfo>>
       [] OTHER ->
            /\ hotels' = ret.hotels
            /\ debugInfo' = ret.debugInfo
            /\ IF ZyteFallbackWanted(ret.hotels, cfg)
                 THEN /\ Invoke("scrapeWithPuppeteer", SearchBrowserKind(cfg), "launch")
                      /\ pc' = "await661"
                      /\ UNCHANGED <<result, browsers>>
                 ELSE /\ Finish(ret.hotels, ret.debugInfo)
                      /\ Consume
  /\ UNCHANGED cfg
  /\ UNCHANGED ext

\* booking.js:661-663, after await scrapeWithPuppeteer inside the try: a throw
\* here is caught by the same catch (zyteError) clause.
scrapeBookingHotels_AfterFallback ==
  /\ Awaiting("await661")
  /\ IF ret.kind = "throw"
       THEN /\ CatchZyteError(ret.error)
            /\ UNCHANGED <<hotels, debugInfo>>
       ELSE /\ hotels' = ret.hotels
            /\ debugInfo' = ret.debugInfo
            /\ Finish(ret.hotels, ret.debugInfo)
            /\ Consume
  /\ UNCHANGED cfg
  /\ UNCHANGED ext

\* booking.js:669-671, after await scrapeWithPuppeteer inside the catch
scrapeBookingHotels_AfterCatchFallback ==
  /\ Awaiting("await669")
  /\ IF ret.kind = "throw"
       THEN /\ CatchOuter(ret.error)
            /\ UNCHANGED <<hotels, debugInfo>>
       ELSE /\ hotels' = ret.hotels
            /\ debugInfo' = ret.debugInfo
            /\ Finish(ret.hotels, ret.debugInfo)
  /\ Consume
  /\ UNCHANGED cfg
  /\ UNCHANGED ext

\* booking.js:685: if (hotels.length === 0 && zyteApiKey && !options.noRetry)
FailSafeRetryWanted(h, c) == h = <<>> /\ c.zyteApiKey /\ ~c.noRetry

\* booking.js:680-688, after await scrapeWithPuppeteer as first backend
scrapeBookingHotels_AfterPuppeteer ==
  /\ Awaiting("await680")
  /\ IF ret.kind = "throw"
       THEN /\ CatchOuter(ret.error)
            /\ Consume
            /\ UNCHANGED <<hotels, debugInfo>>
       ELSE /\ hotels' = ret.hotels
            /\ debugInfo' = ret.debugInfo
            /\ IF FailSafeRetryWanted(ret.hotels, cfg)
                 THEN /\ Invoke("scrapeWithZyte", "zyte", "fetch")
                      /\ pc' = "await688"
                      /\ UNCHANGED <<result, browsers>>
                 ELSE /\ Finish(ret.hotels, ret.debugInfo)
                      /\ Consume
  /\ UNCHANGED cfg
  /\ UNCHANGED ext

\* booking.js:689-693: the retry replaces the result only if it has hotels
FailSafeMergeKeepsFirst(h, d, r) == [hotels |-> h, debugInfo |-> d]

\* A mutation of FailSafeMerge: a retry that brings no hotels still marks
\* the request as a fallback and reports the retry's error.
FailSafeMergeReportsRetry(h, d, r) ==
  IF r.kind = "return" /\ r.hotels # <<>>
    THEN [ hotels |-> r.hotels,
           debugInfo |-> Spread(r.debugInfo,
                                [was_fallback |-> TRUE, original_debug |-> d]) ]
    ELSE [ hotels |-> h,
           debugInfo |-> Spread(d, [was_fallback |-> TRUE, error |-> r.error]) ]

FailSafeMerge(h, d, r) ==
  IF r.kind = "return" /\ r.hotels # <<>>
    THEN [ hotels |-> r.hotels,
           debugInfo |-> Spread(r.debugInfo,
                                [was_fallback |-> TRUE, original_debug |-> d]) ]
    ELSE [hotels |-> h, debugInfo |-> d]

\* booking.js:688-697, after await scrapeWithZyte in the fail-safe retry; its
\* throw is caught and only logged.
scrapeBookingHotels_AfterFailSafe ==
  /\ Awaiting("await688")
  /\ LET m == FailSafeMerge(hotels, debugInfo, ret) IN
       /\ hotels' = m.hotels
       /\ debugInfo' = m.debugInfo
       /\ Finish(m.hotels, m.debugInfo)
  /\ Consume
  /\ UNCHANGED cfg
  /\ UNCHANGED ext

-----------------------------------------------------------------------------
(* scrapeHotelDetails (booking.js:1646-1676).                              *)

\* details.url = hotelURL; return details
ResolveDetails(n) ==
  /\ result' = [NoResult EXCEPT !.status = "resolved", !.name = n]
  /\ pc' = "done"

\* catch (error) { throw error; }
Reject(e) ==
  /\ result' = [NoResult EXCEPT !.status = "rejected", !.error = e]
  /\ pc' = "done"

\* booking.js:1650-1666
scrapeHotelDetails_Start ==
  /\ pc = "start"
  /\ cfg.request = "detail"
  /\ IF ZyteFirst(cfg)
       THEN /\ Invoke("scrapeHotelDetailsWithZyte", "zyte", "fetch")
            /\ pc' = "await1658"
       ELSE /\ Invoke("scrapeHotelDetailsWithPuppeteer", DetailBrowserKind(cfg), "launch")
            /\ pc' = "await1665"
  /\ UNCHANGED <<cfg, hotels, debugInfo, result, browsers>>
  /\ UNCHANGED ext

\* booking.js:1658-1663
scrapeHotelDetails_AfterZyte ==
  /\ Awaiting("await1658")
  /\ IF ret.kind = "throw"
       THEN /\ Invoke("scrapeHotelDetailsWithPuppeteer", DetailBrowserKind(cfg), "launch")
            /\ pc' = "await1662"
            /\ UNCHANGED <<result, browsers>>
       ELSE /\ ResolveDetails(ret.name)
            /\ Consume
  /\ UNCHANGED <<cfg, hotels, debugInfo>>
  /\ UNCHANGED ext

\* booking.js:1662 and 1665: a throw of the browser backend is rethrown
scrapeHotelDetails_AfterPuppeteer ==
  /\ \/ Awaiting("await1662")
     \/ Awaiting("await1665")
  /\ IF ret.kind = "throw"
       THEN Reject(ret.error)
       ELSE ResolveDetails(ret.name)
  /\ Consume
  /\ UNCHANGED <<cfg, hotels, debugInfo>>
  /\ UNCHANGED ext

-----------------------------------------------------------------------------

Init ==
  /\ cfg \in Configs
  /\ pc = "start"
  /\ hotels = <<>>
  /\ debugInfo = EmptyObject
  /\ result = NoResult
  /\ calls = <<>>
  /\ frame = IdleFrame
  /\ ret = NoRet
  /\ browsers = <<>>
  /\ http = Idle
  /\ builds = Idle
  /\ canon = Idle
  /\ page = Idle
  /\ detail = Idle
  /\ overlay = Idle
  /\ conc = Idle
  /\ auth = Idle

Next ==
  \/ scrapeBookingHotels_Start
  \/ scrapeBookingHotels_AfterZyte
  \/ scrapeBookingHotels_AfterFallback
  \/ scrapeBookingHotels_AfterCatchFallback
  \/ scrapeBookingHotels_AfterPuppeteer
  \/ scrapeBookingHotels_AfterFailSafe
  \/ scrapeHotelDetails_Start
  \/ scrapeHotelDetails_AfterZyte
  \/ scrapeHotelDetails_AfterPuppeteer
  \/ scrapeWithZyte
  \/ scrapeHotelDetailsWithZyte
  \/ scrapeWithPuppeteer_Launch
  \/ scrapeWithPuppeteer_Setup
  \/ scrapeWithPuppeteer_Goto
  \/ scrapeWithPuppeteer_Inspect
  \/ scrapeWithPuppeteer_WaitCards
  \/ scrapeWithPuppeteer_Scroll
  \/ scrapeWithPuppeteer_WaitPrice
  \/ scrapeWithPuppeteer_Extract
  \/ scrapeWithPuppeteer_Finalize
  \/ scrapeHotelDetailsWithPuppeteer_Launch
  \/ scrapeHotelDetailsWithPuppeteer_Setup
  \/ scrapeHotelDetailsWithPuppeteer_Goto
  \/ scrapeHotelDetailsWithPuppeteer_WaitBody
  \/ scrapeHotelDetailsWithPuppeteer_WaitName
  \/ scrapeHotelDetailsWithPuppeteer_Scroll
  \/ scrapeHotelDetailsWithPuppeteer_Hydration
  \/ scrapeHotelDetailsWithPuppeteer_ShowMore
  \/ scrapeHotelDetailsWithPuppeteer_Content
  \/ scrapeHotelDetailsWithPuppeteer_Extract
  \/ dismissOverlays
  \/ BrowserClose

Spec == Init /\ [][Next]_vars

-----------------------------------------------------------------------------
(* Properties.                                                             *)

Done == pc = "done"
IsSearch == cfg.request = "search"
IsDetail == cfg.request = "detail"

\* The backend family of a call: the remote render API or a browser.
Backend(c) ==
  IF c.fn \in {"scrapeWithZyte", "scrapeHotelDetailsWithZyte"}
    THEN "zyte" ELSE "puppeteer"

IsBrowserCall(c) == Backend(c) = "puppeteer"

LastCall == calls[Len(calls)]

\* An alternate to the first backend is configured: a browser the search
\* path may use (local, or Browserless by token) after Zyte; the Zyte key
\* after a browser.
AlternateConfigured ==
  IF Backend(calls[1]) = "zyte"
    THEN ~cfg.isServerless \/ cfg.browserlessToken
    ELSE cfg.zyteApiKey

FirstYieldedZero == calls[1].out \in {"empty", "bare"}

\* C1: a search request makes at most two backend invocations, and the
\* second is never on the same backend as the first.
C1_AtMostOneFailover ==
  IsSearch =>
    /\ Len(calls) <= 2
    /\ (Len(calls) = 2 => Backend(calls[2]) # Backend(calls[1]))

\* C2: when the first attempt yields zero hotels, an alternate backend is
\* configured and retry is not disabled, the finished request has made
\* exactly one fail-over attempt, on the alternate backend.
C2_FailoverOnEmpty ==
  (IsSearch /\ Done /\ Len(calls) >= 1 /\ FirstYieldedZero
     /\ AlternateConfigured /\ ~cfg.noRetry)
    => /\ Len(calls) = 2
       /\ Backend(calls[2]) # Backend(calls[1])

\* C3: with options.noRetry set, a search request never invokes a second
\* backend.
C3_NoRetryNoSecondBackend ==
  (IsSearch /\ cfg.noRetry) => Len(calls) <= 1

\* C4: when the first backend throws and an alternate backend is configured,
\* the finished request has tried the alternate backend.
C4_FailoverOnThrow ==
  (IsSearch /\ Done /\ Len(calls) >= 1 /\ calls[1].out = "throw"
     /\ AlternateConfigured)
    => /\ Len(calls) >= 2
       /\ Backend(calls[2]) # Backend(calls[1])

\* C5: whenever no backend call is in progress, every browser session that
\* was opened is closed; in particular the session of each completed browser
\* call is closed, whether the call returned records, returned early without
\* hotel cards, or threw after opening the session.
C5_SessionsClosed ==
  /\ frame.pos = "idle" =>
       \A i \in 1..Len(browsers) : browsers[i] = "closed"
  /\ \A k \in 1..Len(calls) :
       (calls[k].out # "pending" /\ calls[k].session # 0)
         => browsers[calls[k].session] = "closed"

\* C5 witness: a finished search whose two browser calls each opened a
\* session, the first throwing after the launch and the second returning
\* early without hotel cards, both sessions closed.
C5_Witness ==
  /\ IsSearch /\ Done /\ Len(calls) = 3 /\ Len(browsers) = 2
  /\ calls[2].out = "throw" /\ calls[2].session = 1
  /\ calls[3].out = "empty" /\ calls[3].session = 2 /\ ~calls[3].extractionRan
  /\ browsers = <<"closed", "closed">>

\* The highest-preference backend available, in the order cloud browser
\* service, local headless browser, serverless-packaged browser, remote
\* render API.
HighestPreference(c) ==
  IF c.browserlessToken THEN "browserless"
  ELSE IF ~c.isServerless THEN "local"
  ELSE "serverless"

\* C6 as stated: without a per-request override the first backend invoked is
\* the highest-preference one in the order cloud browser, local browser,
\* serverless browser, remote render API.
C6_Original ==
  (IsSearch /\ ~cfg.optUseZyte /\ Len(calls) >= 1)
    => calls[1].kind = HighestPreference(cfg)

\* C6 amended: without a per-request override the first backend invoked is
\* the remote render API when USE_ZYTE=true and the key is set; otherwise
\* the cloud browser service when its token is set; otherwise the local
\* browser, and only outside serverless; otherwise no backend is invoked.
C6_FirstBackend ==
  (IsSearch /\ ~cfg.optUseZyte) =>
    IF cfg.envUseZyte /\ cfg.zyteApiKey
      THEN Len(calls) >= 1 => calls[1].kind = "zyte"
    ELSE IF cfg.browserlessToken
      THEN Len(calls) >= 1 => calls[1].kind = "browserless"
    ELSE IF ~cfg.isServerless
      THEN Len(calls) >= 1 => calls[1].kind = "local"
    ELSE calls = <<>>

\* C6 witness: Zyte is invoked first although a Browserless token is set.
C6_Witness ==
  /\ IsSearch /\ ~cfg.optUseZyte /\ cfg.envUseZyte /\ cfg.zyteApiKey
  /\ cfg.browserlessToken
  /\ Len(calls) >= 1 /\ calls[1].kind = "zyte" /\ calls[1].out = "records"

NoBackendUsable ==
  /\ cfg.isServerless
  /\ ~((cfg.optUseZyte \/ (cfg.zyteApiKey /\ cfg.envUseZyte)) /\ cfg.zyteApiKey)
  /\ ~cfg.browserlessToken

\* C7: in serverless with neither a Zyte selection with key nor a
\* Browserless token, a search makes no backend call and ends with the
\* error message that names the missing configuration.
C7_NoBackendConfigured ==
  (IsSearch /\ NoBackendUsable) =>
    /\ calls = <<>>
    /\ frame = IdleFrame
    /\ browsers = <<>>
    /\ Done =>
         /\ result.status = "resolved"
         /\ result.hotels = <<>>
         /\ Has(result.debugInfo, "error")
         /\ result.debugInfo.error = NoServiceMsg

\* C7 witness: such a request has ended with the error.
C7_Witness ==
  /\ IsSearch /\ NoBackendUsable /\ Done /\ cfg.zyteApiKey
  /\ Has(result.debugInfo, "error")
  /\ result.debugInfo.error = NoServiceMsg

\* C8: in every result whose hotels a fail-over attempt produced (a browser
\* attempt failing over to Zyte, or a Zyte attempt falling back to the
\* browser), debugInfo.method names the backend that produced the hotels and
\* debugInfo.was_fallback indicates the fail-over.
C8_DebugInfoNamesBackend ==
  (IsSearch /\ Done /\ Len(calls) >= 2 /\ result.hotels # <<>>) =>
    /\ result.debugInfo.method = Backend(LastCall)
    /\ Has(result.debugInfo, "was_fallback")

\* C9: when the first attempt yields zero records and the fail-over attempt
\* on the other backend yields records, the request returns exactly those
\* records, in the same order.
C9_ReturnsSecondBackendRecords ==
  (IsSearch /\ Done /\ Len(calls) >= 2 /\ FirstYieldedZero
     /\ LastCall.out = "records" /\ Backend(LastCall) # Backend(calls[1]))
    => /\ result.status = "resolved"
       /\ result.hotels = LastCall.hotels

\* C9 witness: a browser attempt without hotels, then Zyte returns two
\* different records, which are the result.
C9_Witness ==
  /\ IsSearch /\ Done /\ Len(calls) = 2
  /\ calls[1].out = "empty" /\ IsBrowserCall(calls[1])
  /\ calls[2].hotels = <<"h2", "h1">>
  /\ result.hotels = <<"h2", "h1">>

DetailAlternateConfigured ==
  IF Backend(calls[1]) = "zyte" THEN TRUE ELSE cfg.zyteApiKey

\* C11: a finished detail request whose first backend returned a detail
\* without a name, an alternate being configured, has made exactly one
\* fail-over attempt on the alternate; and one whose first backend is the
\* browser and threw, the Zyte key being set, has tried Zyte.
C11_DetailFailover ==
  (IsDetail /\ Done /\ Len(calls) >= 1 /\ DetailAlternateConfigured) =>
    /\ (calls[1].out = "detail" /\ calls[1].name = "null")
         => (Len(calls) = 2 /\ Backend(calls[2]) # Backend(calls[1]))
    /\ (IsBrowserCall(calls[1]) /\ calls[1].out = "throw")
         => (Len(calls) >= 2 /\ Backend(calls[2]) = "zyte")


(***************************************************************************)
(* The HTTP entry points: the Appwrite function (src/index.js), the        *)
(* bridge server (src/unnamed/part_000, handleHotelsEndpoint and           *)
(* handleHotelDetailsEndpoint) and the local server (POST /scrape).        *)
(* A string is the sequence of its pieces; " " is a run of whitespace.     *)
(***************************************************************************)
Undefined == [type |-> "undefined", text |-> <<>>]
Num(t) == [type |-> "number", text |-> t]
Str(t) == [type |-> "string", text |-> t]

\* JavaScript truthiness: undefined and "" are falsy, a non-zero number and a
\* non-empty string (whitespace included) are truthy.
Truthy(v) ==
  CASE v.type = "undefined" -> FALSE
    [] v.type = "number"    -> v.text # <<"0">>
    [] v.type = "string"    -> v.text # <<>>

RECURSIVE TrimStart(_)
TrimStart(t) ==
  IF t # <<>> /\ Head(t) = " " THEN TrimStart(Tail(t)) ELSE t

RECURSIVE TrimEnd(_)
TrimEnd(t) ==
  IF t # <<>> /\ t[Len(t)] = " " THEN TrimEnd(SubSeq(t, 1, Len(t) - 1)) ELSE t

\* String.prototype.trim
Trim(t) == TrimEnd(TrimStart(t))

\* String.prototype.includes, for a needle that is one piece
Includes(t, piece) == \E i \in 1..Len(t) : t[i] = piece

HotelPath == "booking.com/hotel/"

Locations ==
  { Undefined, Num(<<"7">>), Str(<<>>), Str(<<" ">>),
    Str(<<"Paris">>), Str(<<" ", "Paris", " ">>) }

Dates == { Undefined, Str(<<"2025-12-20">>) }

Urls ==
  { Undefined, Num(<<"7">>), Str(<<>>), Str(<<" ">>),
    Str(<<"https://", "example.com/", "x.html">>),
    Str(<<"https://www.", HotelPath, "x.html">>) }

\* The parsed JSON body of a POST request.
SearchBodies ==
  [ location : Locations, checkin : Dates, checkout : Dates, url : {Undefined} ]

DetailBodies ==
  [ location : {Undefined}, checkin : {Undefined}, checkout : {Undefined},
    url : Urls ]

\* A value of a response field: an array, an object (items holds its hotels
\* field), or undefined.
Array(items) == [type |-> "array", items |-> items]
Object(items) == [type |-> "object", items |-> items]
NoValue == [type |-> "undefined", items |-> <<>>]

\* x.length: the number of items of an array, undefined on a plain object
LengthOf(v) ==
  IF v.type = "array" THEN [defined |-> TRUE, n |-> Len(v.items)]
                      ELSE [defined |-> FALSE, n |-> 0]

NoBody == [count |-> LengthOf(NoValue), hotels |-> NoValue]

Requests ==
  [ stage : {"received"}, entry : {"appwrite", "server", "local"},
    path : {"hotels"}, body : SearchBodies,
    scraper : {"none"}, arg : {Undefined}, status : {0},
    result : {NoValue}, response : {NoBody} ]
  \cup
  [ stage : {"received"}, entry : {"appwrite", "server"},
    path : {"hotel-details"}, body : DetailBodies,
    scraper : {"none"}, arg : {Undefined}, status : {0},
    result : {NoValue}, response : {NoBody} ]

\* res.json(..., status) / sendJSON(res, status, ...)
Respond(status) ==
  http' = [http EXCEPT !.stage = "responded", !.status = status]

\* await scrapeBookingHotels(arg) / await scrapeHotelDetails(arg)
CallScraper(fn, arg) ==
  http' = [http EXCEPT !.stage = "awaiting", !.scraper = fn, !.arg = arg]

Received(entry, path) ==
  /\ http.stage = "received"
  /\ http.entry = entry
  /\ http.path = path

\* src/index.js, POST /api/hotels
appwrite_hotels ==
  /\ Received("appwrite", "hotels")
  /\ IF \/ ~Truthy(http.body.location)
        \/ ~Truthy(http.body.checkin)
        \/ ~Truthy(http.body.checkout)
     THEN Respond(400)
     ELSE CallScraper("scrapeBookingHotels", http.body.location)
  /\ UNCHANGED <<reqVars, builds, canon, page, detail, overlay, conc, auth>>

\* src/index.js, POST /api/hotel-details
appwrite_hotelDetails ==
  /\ Received("appwrite", "hotel-details")
  /\ IF ~Truthy(http.body.url)
     THEN Respond(400)
     ELSE CallScraper("scrapeHotelDetails", http.body.url)
  /\ UNCHANGED <<reqVars, builds, canon, page, detail, overlay, conc, auth>>

\* part_000, handleHotelsEndpoint
handleHotelsEndpoint ==
  /\ Received("server", "hotels")
  /\ IF ~Truthy(http.body.location) \/ http.body.location.type # "string"
     THEN Respond(400)
     ELSE IF Trim(http.body.location.text) = <<>>
     THEN Respond(400)
     ELSE CallScraper("scrapeBookingHotels",
                      Str(Trim(http.body.location.text)))
  /\ UNCHANGED <<reqVars, builds, canon, page, detail, overlay, conc, auth>>

\* part_000, handleHotelDetailsEndpoint
handleHotelDetailsEndpoint ==
  /\ Received("server", "hotel-details")
  /\ IF ~Truthy(http.body.url) \/ http.body.url.type # "string"
     THEN Respond(400)
     ELSE IF ~Includes(Trim(http.body.url.text), HotelPath)
     THEN Respond(400)
     ELSE CallScraper("scrapeHotelDetails", Str(Trim(http.body.url.text)))
  /\ UNCHANGED <<reqVars, builds, canon, page, detail, overlay, conc, auth>>

\* part_000, local server, POST /scrape
localServer_scrape ==
  /\ Received("local", "hotels")
  /\ IF ~Truthy(http.body.location)
     THEN Respond(400)
     ELSE CallScraper("scrapeBookingHotels", http.body.location)
  /\ UNCHANGED <<reqVars, builds, canon, page, detail, overlay, conc, auth>>

\* The body of the 200 response of a search.  The bridge server unwraps the
\* result (result.hotels || []); src/index.js and the local server send the
\* resolved value itself as hotels and its .length as count.
SearchResponse(entry, resolved) ==
  LET sent == IF entry = "server" THEN Array(resolved.items) ELSE resolved
  IN  [count |-> LengthOf(sent), hotels |-> sent]

\* The awaited scraper resolves (200) or rejects (the handler's catch: 500).
\* scrapeBookingHotels resolves to the object { hotels, debugInfo }.
ScraperSettles ==
  /\ http.stage = "awaiting"
  /\ \/ /\ http.path = "hotels"
        /\ \E hs \in HotelLists :
             http' = [http EXCEPT !.stage = "responded", !.status = 200,
                                  !.result = Object(hs),
                                  !.response = SearchResponse(http.entry, Object(hs))]
     \/ /\ http.path = "hotel-details"
        /\ Respond(200)
     \/ Respond(500)
  /\ UNCHANGED <<reqVars, builds, canon, page, detail, overlay, conc, auth>>

\* No scraper request is running.
RequestIdle ==
  /\ cfg = [ request |-> "none", isServerless |-> FALSE, zyteApiKey |-> FALSE,
             browserlessToken |-> FALSE, envUseZyte |-> FALSE,
             optUseZyte |-> FALSE, noRetry |-> FALSE ]
  /\ pc = "idle"
  /\ hotels = <<>>
  /\ debugInfo = EmptyObject
  /\ result = NoResult
  /\ calls = <<>>
  /\ frame = IdleFrame
  /\ ret = NoRet
  /\ browsers = <<>>

InitHttp ==
  /\ RequestIdle
  /\ http \in Requests
  /\ builds = Idle
  /\ canon = Idle
  /\ page = Idle
  /\ detail = Idle
  /\ overlay = Idle
  /\ conc = Idle
  /\ auth = Idle

NextHttp ==
  \/ appwrite_hotels
  \/ appwrite_hotelDetails
  \/ handleHotelsEndpoint
  \/ handleHotelDetailsEndpoint
  \/ localServer_scrape
  \/ ScraperSettles

SpecHttp == InitHttp /\ [][NextHttp]_vars

\* The required field of the request is missing, empty or invalid.
InvalidInput ==
  IF http.path = "hotels"
    THEN \/ http.body.location.type # "string"
         \/ Trim(http.body.location.text) = <<>>
    ELSE \/ http.body.url.type # "string"
         \/ ~Includes(http.body.url.text, HotelPath)

\* C12: a request whose required field is missing, empty or invalid never has
\* a scraper called for it, and its response, once sent, is the 400 error,
\* in every entry point.
C12_InvalidInputRejected ==
  InvalidInput =>
    /\ http.scraper = "none"
    /\ http.stage = "responded" => http.status = 400


(***************************************************************************)
(* buildSearchURL (booking.js:41-68).  An instant is a number of hours     *)
(* since 2025-01-01T00:00Z; a calendar date is [y, m, d]; the process's    *)
(* time zone is a whole number of hours east of UTC.                       *)
(***************************************************************************)
DaysInMonth(y, m) ==
  CASE m = 2 -> IF y % 4 = 0 THEN 29 ELSE 28
    [] m \in {4, 6, 9, 11} -> 30
    [] OTHER -> 31

RECURSIVE DateFrom(_, _, _)
DateFrom(y, m, n) ==
  IF n < DaysInMonth(y, m)
    THEN [y |-> y, m |-> m, d |-> n + 1]
    ELSE IF m = 12 THEN DateFrom(y + 1, 1, n - DaysInMonth(y, m))
                   ELSE DateFrom(y, m + 1, n - DaysInMonth(y, m))

\* The calendar date of day number n (day 0 is 2025-01-01).
DateOfDay(n) == DateFrom(2025, 1, n)

RECURSIVE DaysBefore(_, _)
DaysBefore(y, m) ==
  IF y = 2025 /\ m = 1 THEN 0
  ELSE IF m = 1 THEN DaysBefore(y - 1, 12) + DaysInMonth(y - 1, 12)
                ELSE DaysBefore(y, m - 1) + DaysInMonth(y, m - 1)

\* The day number of the d-th day of month m of year y; d may overflow the
\* month, as in Date.prototype.setDate.
DayOfDate(y, m, d) == DaysBefore(y, m) + d - 1

\* d.getDate(), getMonth(), getFullYear() in the local time zone
LocalDate(t, tz) == DateOfDay((t + tz) \div 24)

\* d.setDate(k): the k-th day of d's local month, local time of day kept
SetDate(t, tz, k) ==
  LET l == LocalDate(t, tz)
  IN  DayOfDate(l.y, l.m, k) * 24 + ((t + tz) % 24) - tz

\* formatDate: d.toISOString().split('T')[0], the UTC calendar date
formatDate(t) == DateOfDay(t \div 24)

\* An option that was not supplied (undefined, null, 0: all falsy).
NoDate == [y |-> 0, m |-> 0, d |-> 0]

\* The default taken even when the option was supplied.
OrElseAlwaysDefault(a, b, falsy) == b

\* a || b
OrElse(a, b, falsy) == IF a = falsy THEN b ELSE a

buildSearchURL(location, options, now, tz) ==
  LET defaultCheckin  == SetDate(now, tz, LocalDate(now, tz).d + 1)
      defaultCheckout == SetDate(defaultCheckin, tz,
                                 LocalDate(defaultCheckin, tz).d + 2)
  IN  [ base           |-> "https://www.booking.com/searchresults.html",
        ss             |-> location,
        checkin        |-> OrElse(options.checkin, formatDate(defaultCheckin), NoDate),
        checkout       |-> OrElse(options.checkout, formatDate(defaultCheckout), NoDate),
        group_adults   |-> OrElse(options.adults, 2, 0),
        no_rooms       |-> OrElse(options.rooms, 1, 0),
        group_children |-> OrElse(options.children, 0, 0),
        lang           |-> "en-us",
        selected_currency |-> "USD",
        aid            |-> "304142" ]

\* Hours east of UTC of the process (TZ of the host).
TimeZones == {0, 5}

\* new Date(): late on February 28 and on December 31, early and late.
Instants == { 58 * 24 + 1, 58 * 24 + 22, 364 * 24 + 1, 364 * 24 + 22 }

SearchOptions ==
  [ checkin  : {NoDate, [y |-> 2025, m |-> 12, d |-> 30]},
    checkout : {NoDate, [y |-> 2026, m |-> 1, d |-> 4]},
    adults   : {0},
    rooms    : {0},
    children : {0} ]

MaxBuilds == 2

\* One call of buildSearchURL(location, options), made at some instant.
BuildSearchURL ==
  /\ builds.stage = "running"
  /\ Len(builds.calls) < MaxBuilds
  /\ \E location \in {"Paris", "New York"}, options \in SearchOptions,
        now \in Instants :
       builds' = [builds EXCEPT !.calls = Append(@,
                    [ location |-> location, options |-> options, now |-> now,
                      url |-> buildSearchURL(location, options, now, builds.tz) ])]
  /\ UNCHANGED <<reqVars, http, canon, page, detail, overlay, conc, auth>>

InitUrl ==
  /\ RequestIdle
  /\ http = Idle
  /\ canon = Idle
  /\ page = Idle
  /\ detail = Idle
  /\ \E tz \in TimeZones : builds = [stage |-> "running", tz |-> tz, calls |-> <<>>]
  /\ overlay = Idle
  /\ conc = Idle
  /\ auth = Idle

NextUrl == BuildSearchURL

SpecUrl == InitUrl /\ [][NextUrl]_vars

\* The calendar date k days after a calendar date.
PlusDays(date, k) == DateOfDay(DayOfDate(date.y, date.m, date.d) + k)

\* C13: in every call that supplied checkin and no checkout, the checkout of
\* the built URL is the supplied checkin plus 2 days.
C13_CheckoutFromCheckin ==
  \A i \in 1..Len(builds.calls) :
    LET c == builds.calls[i]
    IN  (c.options.checkin # NoDate /\ c.options.checkout = NoDate)
          => c.url.checkout = PlusDays(c.options.checkin, 2)


\* No option was supplied to the call.
NoOptions(c) ==
  c.options = [checkin |-> NoDate, checkout |-> NoDate, adults |-> 0,
               rooms |-> 0, children |-> 0]

\* C14: every call without options yields checkin = the day after the current
\* date of the process, checkout = that checkin + 2 days, group_adults = 2,
\* no_rooms = 1 and group_children = 0.
C14_Defaults ==
  \A i \in 1..Len(builds.calls) :
    LET c == builds.calls[i]
    IN  NoOptions(c) =>
          /\ c.url.checkin = PlusDays(LocalDate(c.now, builds.tz), 1)
          /\ c.url.checkout = PlusDays(c.url.checkin, 2)
          /\ c.url.group_adults = 2
          /\ c.url.no_rooms = 1
          /\ c.url.group_children = 0

\* Two calls with equal (location, options).
EqualInputs(a, b) == a.location = b.location /\ a.options = b.options

NullUrl ==
  [ kind |-> "null", parseable |-> FALSE, origin |-> "", pathname |-> "",
    query |-> <<>>, hash |-> "" ]

UrlText(parseable, origin, pathname, query, hash) ==
  [ kind |-> "text", parseable |-> parseable, origin |-> origin,
    pathname |-> pathname, query |-> query, hash |-> hash ]

\* str.replace(/&amp;/g, '&')
decodeHtmlEntities(url) ==
  [url EXCEPT !.query =
     [i \in 1..Len(url.query) |->
        [url.query[i] EXCEPT !.sep = IF @ = "&amp;" THEN "&" ELSE @]]]

\* new URL(url).searchParams: the text is split at "?" and "&" only, so a
\* parameter written after "&amp;" is parsed under the key "amp;<key>".
searchParams(url) ==
  [i \in 1..Len(url.query) |->
     [ key   |-> IF url.query[i].sep = "&amp;" THEN "amp;" ELSE url.query[i].key,
       value |-> url.query[i].value ]]

\* URLSearchParams.prototype.has
searchParamsHas(params, k) == \E i \in 1..Len(params) : params[i].key = k

\* URLSearchParams.prototype.get: the value of the first parameter named k
searchParamsGet(params, k) ==
  params[CHOOSE i \in 1..Len(params) :
           /\ params[i].key = k
           /\ \A j \in 1..(i - 1) : params[j].key # k].value

essentialParams ==
  <<"checkin", "checkout", "group_adults", "no_rooms", "group_children">>

\* The essential parameters kept in the order the input wrote them.
newParamsInputOrder(params) ==
  SelectSeq(params, LAMBDA p : \E i \in 1..Len(essentialParams) :
                                 essentialParams[i] = p.key)

\* for (const param of essentialParams) if (has(param)) newParams.set(...)
newParams(params) ==
  LET kept == SelectSeq(essentialParams, LAMBDA k : searchParamsHas(params, k))
  IN  [i \in 1..Len(kept) |->
         [key |-> kept[i], value |-> searchParamsGet(params, kept[i])]]

\* newParams.toString() ? '?' + newParams.toString() : ''
toQuery(params) ==
  [i \in 1..Len(params) |->
     [ sep |-> IF i = 1 THEN "?" ELSE "&", key |-> params[i].key,
       value |-> params[i].value ]]

cleanHotelUrl(url) ==
  IF url.kind = "null" THEN url                      \* if (!url) return url
  ELSE LET decoded == decodeHtmlEntities(url)
       IN  IF ~decoded.parseable THEN decoded         \* catch (e) { return url }
           ELSE UrlText(TRUE, decoded.origin, decoded.pathname,
                        toQuery(newParams(searchParams(decoded))), "")

MaxParams == 3

\* Parameters a hotel link may carry: the five essential ones, a second value
\* of checkin, and the tracking parameters aid and label.
ParamPool ==
  [ key : {"checkin", "checkout", "group_adults", "no_rooms", "group_children",
           "aid", "label"},
    value : {"a"} ]
  \cup {[key |-> "checkin", value |-> "b"]}

\* The link of a search built by buildSearchURL, in two orders.
FullQueries ==
  { << [key |-> "aid", value |-> "a"], [key |-> "group_children", value |-> "a"],
       [key |-> "no_rooms", value |-> "a"], [key |-> "checkin", value |-> "a"],
       [key |-> "label", value |-> "a"], [key |-> "group_adults", value |-> "a"],
       [key |-> "checkout", value |-> "a"] >>,
    << [key |-> "checkin", value |-> "a"], [key |-> "checkout", value |-> "a"],
       [key |-> "group_adults", value |-> "a"], [key |-> "no_rooms", value |-> "a"],
       [key |-> "group_children", value |-> "a"], [key |-> "aid", value |-> "a"],
       [key |-> "label", value |-> "a"] >> }

Queries ==
  FullQueries \cup UNION { [1..n -> ParamPool] : n \in 0..MaxParams }

\* The text of a query, plain or HTML-escaped.
WriteQuery(q, escaped) ==
  [i \in 1..Len(q) |->
     [ sep |-> IF i = 1 THEN "?" ELSE IF escaped THEN "&amp;" ELSE "&",
       key |-> q[i].key, value |-> q[i].value ]]

HotelUrls ==
  { UrlText(TRUE, "https://www.booking.com", "/hotel/fr/ritz.html",
            WriteQuery(q, escaped), hash) :
      q \in Queries, escaped \in BOOLEAN, hash \in {"", "#tab-reviews"} }

CleanInputs ==
  HotelUrls \cup
  { NullUrl,
    UrlText(FALSE, "", "/hotel/fr/ritz.html",
            WriteQuery(<<[key |-> "aid", value |-> "a"],
                         [key |-> "label", value |-> "a"]>>, TRUE), "") }

\* One call of cleanHotelUrl.
CleanHotelUrl ==
  /\ canon.stage = "input"
  /\ canon' = [canon EXCEPT !.stage = "done", !.output = cleanHotelUrl(canon.input)]
  /\ UNCHANGED <<reqVars, http, builds, page, detail, overlay, conc, auth>>

InitClean ==
  /\ RequestIdle
  /\ http = Idle
  /\ builds = Idle
  /\ page = Idle
  /\ detail = Idle
  /\ canon \in [stage : {"input"}, input : CleanInputs, output : {NullUrl}]
  /\ overlay = Idle
  /\ conc = Idle
  /\ auth = Idle

NextClean == CleanHotelUrl

SpecClean == InitClean /\ [][NextClean]_vars

\* The place of a key in the fixed order of the essential parameters.
Rank(k) == CHOOSE i \in 1..Len(essentialParams) : essentialParams[i] = k

IsEssential(k) == \E i \in 1..Len(essentialParams) : essentialParams[i] = k

\* C16: the result of cleaning a parseable URL has the same origin and path;
\* it has an essential parameter exactly when the input has it, with the
\* value the input gives it (the first one), the parameters in the fixed
\* order of essentialParams, and no other parameter.
C16_CleanKeepsEssential ==
  (canon.stage = "done" /\ canon.input.kind = "text" /\ canon.input.parseable) =>
    LET in  == canon.input.query
        out == canon.output.query
    IN  /\ canon.output.origin = canon.input.origin
        /\ canon.output.pathname = canon.input.pathname
        /\ \A j \in 1..Len(out) : IsEssential(out[j].key)
        /\ \A i \in 1..Len(in) :
             IsEssential(in[i].key) => \E j \in 1..Len(out) : out[j].key = in[i].key
        /\ \A j \in 1..Len(out) :
             \E i \in 1..Len(in) :
               /\ in[i].key = out[j].key
               /\ in[i].value = out[j].value
               /\ \A h \in 1..(i - 1) : in[h].key # in[i].key
        /\ \A j, h \in 1..Len(out) : j < h => Rank(out[j].key) < Rank(out[h].key)
        /\ \A j \in 1..Len(out) : out[j].sep = IF j = 1 THEN "?" ELSE "&"

\* A link carrying the five essential parameters out of order, with aid and
\* label, has been cleaned to those five in the fixed order.
C16_Witness ==
  /\ canon.stage = "done"
  /\ canon.input.kind = "text"
  /\ Len(canon.input.query) = 7
  /\ canon.input.query[1].key = "aid"
  /\ [i \in 1..Len(canon.output.query) |-> canon.output.query[i].key] = essentialParams


(***************************************************************************)
(* Listing extraction: extractHotelsFromHTML (booking.js:175-254) over the *)
(* HTML Zyte returns, and the page.evaluate of scrapeWithPuppeteer         *)
(* (460-526) over the DOM.  A card is its title element (Undefined when    *)
(* the card has none, else its text) and the text of its hotel link.       *)
(***************************************************************************)
MaxCards == 2

\* forEach((card, i) => { if (i >= 25) return; ... })
CardLimit == 25

Titles ==
  { Undefined, Str(<<>>), Str(<<" ">>), Str(<<"Ritz">>), Str(<<" ", "Savoy", " ">>) }

TrackedQuery ==
  <<[key |-> "aid", value |-> "a"], [key |-> "checkin", value |-> "a"]>>

\* Link texts of a card: none, a hotel URL without and with tracking
\* parameters (HTML-escaped in the markup), and a text that does not parse.
CardLinks ==
  { NullUrl,
    UrlText(TRUE, "https://www.booking.com", "/hotel/fr/ritz.html", <<>>, ""),
    UrlText(TRUE, "https://www.booking.com", "/hotel/fr/ritz.html",
            WriteQuery(TrackedQuery, TRUE), ""),
    UrlText(FALSE, "", "/hotel/fr/ritz.html", WriteQuery(TrackedQuery, TRUE), "") }

Cards == [title : Titles, link : CardLinks]

\* const name = nameMatch ? decodeHtmlEntities(nameMatch[1].trim()) : null;
\* the pattern >([^<]+)< needs at least one character of text.
htmlName(card) ==
  IF card.title.type = "string" /\ card.title.text # <<>>
    THEN Str(Trim(card.title.text))
    ELSE Undefined

\* cardHtml.match(/href="(https:\/\/www\.booking\.com\/hotel\/[^"]+)"/)
linkMatch(card) ==
  /\ card.link.kind = "text"
  /\ card.link.origin = "https://www.booking.com"

htmlLink(card) == IF linkMatch(card) THEN cleanHotelUrl(card.link) ELSE NullUrl

RECURSIVE htmlHotels(_)
htmlHotels(cards) ==
  IF cards = <<>> THEN <<>>
  ELSE LET card == Head(cards)
           rest == htmlHotels(Tail(cards))
       IN  IF Truthy(htmlName(card))                      \* if (name) hotels.push
             THEN <<[name |-> htmlName(card), link |-> htmlLink(card)]>> \o rest
             ELSE rest

\* linkEl ? linkEl.href : null, the attribute as the HTML parser decoded it
domLink(card) ==
  IF card.link.kind = "text" THEN decodeHtmlEntities(card.link) ELSE NullUrl

\* The records pushed by page.evaluate: a card without a title element is
\* skipped (if (!nameEl) return), any other is pushed with its trimmed text.
RECURSIVE domResults(_)
domResults(cards) ==
  IF cards = <<>> THEN <<>>
  ELSE LET card == Head(cards)
           rest == domResults(Tail(cards))
       IN  IF card.title.type = "undefined"
             THEN rest
             ELSE <<[name |-> Str(Trim(card.title.text)), link |-> domLink(card)]>>
                  \o rest

\* The evaluated records returned as they are.
uncleanedHotels(results) == results

\* hotels.map(hotel => ({ ...hotel, link: cleanHotelUrl(hotel.link) }))
cleanedHotels(results) ==
  [i \in 1..Len(results) |-> [results[i] EXCEPT !.link = cleanHotelUrl(@)]]

FirstCards(cards) ==
  SubSeq(cards, 1, IF Len(cards) < CardLimit THEN Len(cards) ELSE CardLimit)

\* extractHotelsFromHTML(html)
ExtractHotelsFromHTML ==
  /\ page.stage = "rendered"
  /\ page' = [page EXCEPT !.stage = "extracted", !.via = "html",
                          !.hotels = htmlHotels(page.cards)]
  /\ UNCHANGED <<reqVars, http, builds, canon, detail, overlay, conc, auth>>

\* page.evaluate(...) followed by the cleanedHotels map
ExtractHotelsFromDOM ==
  /\ page.stage = "rendered"
  /\ page' = [page EXCEPT !.stage = "extracted", !.via = "dom",
                          !.hotels = cleanedHotels(domResults(FirstCards(page.cards)))]
  /\ UNCHANGED <<reqVars, http, builds, canon, detail, overlay, conc, auth>>

InitPage ==
  /\ RequestIdle
  /\ http = Idle
  /\ builds = Idle
  /\ canon = Idle
  /\ detail = Idle
  /\ page \in [ stage : {"rendered"}, via : {"none"},
                cards : UNION { [1..n -> Cards] : n \in 0..MaxCards },
                hotels : {<<>>} ]
  /\ overlay = Idle
  /\ conc = Idle
  /\ auth = Idle

NextPage ==
  \/ ExtractHotelsFromHTML
  \/ ExtractHotelsFromDOM

SpecPage == InitPage /\ [][NextPage]_vars

OnlyEssential(link) == \A j \in 1..Len(link.query) : IsEssential(link.query[j].key)

RECURSIVE NamedCards(_)
NamedCards(cards) ==
  IF cards = <<>> THEN <<>>
  ELSE IF Head(cards).title.type = "string" /\ Trim(Head(cards).title.text) # <<>>
         THEN <<Head(cards)>> \o NamedCards(Tail(cards))
         ELSE NamedCards(Tail(cards))

\* C18: on both extraction paths every emitted record has a non-null,
\* non-empty name, and the emitted records are those of the named cards, in
\* source order.
C18_NoNamelessRecord ==
  page.stage = "extracted" =>
    /\ \A i \in 1..Len(page.hotels) :
         /\ page.hotels[i].name.type = "string"
         /\ page.hotels[i].name.text # <<>>
    /\ [i \in 1..Len(page.hotels) |-> page.hotels[i].name]
         = [i \in 1..Len(NamedCards(page.cards)) |->
              Str(Trim(NamedCards(page.cards)[i].title.text))]


(***************************************************************************)
(* extractHotelDetailsFromHTML (booking.js:725-1317): coordinates, photos  *)
(* and facilities.  A photo URL is its path (a number) and its query; a    *)
(* facility label is a number, 0 being the empty label.                    *)
(***************************************************************************)
JsNull == [type |-> "null", text |-> <<>>]

\* photos.length < 15
PhotoLimit == 15

\* allFacilities.slice(0, 30)
FacilityLimit == 30

\* knownFacilities has 27 labels
NumKnownFacilities == 27

MaxPhotos == 17

MaxItems == 16

\* The coordinate sources of a page.  A JSON-LD geo with numeric values is
\* also matched by the raw "latitude"/"longitude" patterns; one with quoted
\* values is not.
CoordinateSources ==
  { s \in [ jsonLdGeo : {"none", "numeric", "quoted"}, rawJson : BOOLEAN,
            dataLat : BOOLEAN, dataLng : BOOLEAN ] :
      s.jsonLdGeo = "numeric" => s.rawJson }

\* The src="https://cf.bstatic.com/xdata/images/hotel/..." occurrences.
PhotoOccurrences(n, pattern) ==
  [i \in 1..n |->
     CASE pattern = "distinct" -> [path |-> i, query |-> ""]
       [] pattern = "resized"  -> [path |-> (i + 1) \div 2,
                                   query |-> IF i % 2 = 0 THEN "?k=2" ELSE "?k=1"]
       [] pattern = "repeated" -> [path |-> ((i - 1) % 3) + 1, query |-> ""]]

PhotoInputs ==
  { PhotoOccurrences(n, "distinct") : n \in {0, 2, PhotoLimit, MaxPhotos} }
  \cup { PhotoOccurrences(n, "resized") : n \in {2, 2 * MaxPhotos} }
  \cup { PhotoOccurrences(n, "repeated") : n \in {2, 7} }

\* The <li> labels of a facility group: m labels from `from` on, each written
\* twice and led by an empty label when dup.
GroupItems(from, m, dup) ==
  IF dup THEN <<0>> \o [i \in 1..(2 * m) |-> from + ((i - 1) \div 2)]
         ELSE [i \in 1..m |-> from + i - 1]

\* Two groups, the second starting on the last label of the first when they
\* overlap: long groups of distinct labels, short ones with repeated labels;
\* or no group, and some of the known labels in the text of the page.
FacilityInputs ==
  { [ groups |-> << GroupItems(1, m1, FALSE), GroupItems(m1 + 1 - overlap, m2, FALSE) >>,
      known  |-> {} ] :
      m1 \in {1, MaxItems}, m2 \in {0, MaxItems}, overlap \in {0, 1} }
  \cup
  { [ groups |-> << GroupItems(1, m1, TRUE), GroupItems(m1 + 1 - overlap, 2, TRUE) >>,
      known  |-> {} ] :
      m1 \in {0, 3}, overlap \in {0, 1} }
  \cup
  { [ groups |-> <<>>, known |-> k ] :
      k \in { {}, {1, 2}, 1..NumKnownFacilities } }

\* The sources of name and address.  The JSON-LD entity may carry a name and
\* an address; the page may carry a header name and an address element.  The
\* raw pattern "address": {[^}]*"streetAddress": "..." finds a JSON-LD address
\* written plainly, not one that follows a nested object.
FieldSources ==
  [ ldName : BOOLEAN, headerName : BOOLEAN,
    ldAddress : {"none", "plain", "nested"}, htmlAddress : BOOLEAN ]

NoFields ==
  [ ldName |-> FALSE, headerName |-> FALSE, ldAddress |-> "none",
    htmlAddress |-> FALSE ]

(***************************************************************************)
(* Nearby places.  A heading text is the sequence of its pieces: words, " " *)
(* for a run of whitespace, "&" and "'".  A category key is the sequence of *)
(* its pieces, words and "_".                                              *)
(***************************************************************************)
MaxHeadings == 2

AirportsHeading == <<"Closest", " ", "airports">>
CafesHeading == <<"Restaurants", " ", "&", " ", "cafes">>
NearbyHeading == <<"What", "'", "s", " ", "nearby">>

\* The category sections of the page: a heading and the names of its list
\* items, in page order.
Sections ==
  [ heading : {AirportsHeading}, items : {<<"DXB">>, <<"DXB", "DXB">>, <<"SHJ">>} ]
  \cup
  [ heading : {CafesHeading, NearbyHeading}, items : {<<"Chez Paul">>} ]

\* The sections of a page and the airports of its "title"/"subtitle" data.
AreaSources ==
  [ sections : UNION { [1..n -> Sections] : n \in 0..MaxHeadings },
    airports : {<<>>, <<"DXB">>, <<"DXB", "SHJ">>, <<"SHJ", "SHJ">>} ]

NoArea == [sections |-> <<>>, airports |-> <<>>]

HotelPages ==
  [ coords : CoordinateSources, photos : PhotoInputs, facilities : FacilityInputs,
    fields : {NoFields}, area : {NoArea} ]
  \cup
  [ coords : CoordinateSources, photos : {<<>>},
    facilities : {[groups |-> <<>>, known |-> {}]}, fields : FieldSources,
    area : {NoArea} ]
  \cup
  [ coords : {[jsonLdGeo |-> "none", rawJson |-> FALSE, dataLat |-> FALSE,
               dataLng |-> FALSE]},
    photos : {<<>>}, facilities : {[groups |-> <<>>, known |-> {}]},
    fields : {NoFields}, area : AreaSources ]

\* String.prototype.toLowerCase on one piece
toLowerCase(w) ==
  CASE w = "Closest"     -> "closest"
    [] w = "Restaurants" -> "restaurants"
    [] w = "What"        -> "what"
    [] OTHER             -> w

IsAlphanumeric(w) == w \notin {" ", "&", "'", "_"}

\* .replace(/[^a-z0-9]+/g, '_').replace(/^_|_$/g, ''): every run of pieces
\* that are not alphanumeric becomes one "_", dropped at both ends.
RECURSIVE underscoreRuns(_, _)
underscoreRuns(text, key) ==
  IF text = <<>>
    THEN IF key # <<>> /\ key[Len(key)] = "_" THEN SubSeq(key, 1, Len(key) - 1)
         ELSE key
  ELSE IF IsAlphanumeric(Head(text))
    THEN underscoreRuns(Tail(text), Append(key, Head(text)))
  ELSE IF key = <<>> \/ key[Len(key)] = "_"
    THEN underscoreRuns(Tail(text), key)
  ELSE underscoreRuns(Tail(text), Append(key, "_"))

\* The key of the page.evaluate of scrapeHotelDetailsWithPuppeteer:
\* categoryName.toLowerCase().replace(/[^a-z0-9]+/g, '_').replace(/^_|_$/g, '')
domCategoryKey(text) ==
  underscoreRuns([i \in 1..Len(text) |-> toLowerCase(text[i])], <<>>)

\* categoryToKey of extractHotelDetailsFromHTML: lower case, & to 'and',
\* quotes removed, then the underscore runs.
categoryToKey(text) ==
  LET lower  == [i \in 1..Len(text) |-> toLowerCase(text[i])]
      folded == [i \in 1..Len(lower) |-> IF lower[i] = "&" THEN "and" ELSE lower[i]]
  IN  underscoreRuns(SelectSeq(folded, LAMBDA w : w # "'"), <<>>)

\* array.includes(x)
ArrayIncludes(a, x) == \E i \in 1..Len(a) : a[i] = x

\* if (!items.find(i => i.name === name)) items.push(...)
RECURSIVE uniqueNames(_, _)
uniqueNames(names, items) ==
  IF names = <<>> THEN items
  ELSE uniqueNames(Tail(names),
                   IF ArrayIncludes(items, Head(names)) THEN items
                   ELSE Append(items, Head(names)))

\* The discovery loop: areaInfo[categoryKey] = items
RECURSIVE discoverArea(_, _)
discoverArea(sections, areaInfo) ==
  IF sections = <<>> THEN areaInfo
  ELSE LET key == categoryToKey(Head(sections).heading)
       IN  discoverArea(Tail(sections),
                        Spread(areaInfo,
                               [k \in {key} |-> uniqueNames(Head(sections).items, <<>>)]))

ClosestAirports == <<"closest", "_", "airports">>

\* details.area_info: the discovery, then if (airports.length > 0 &&
\* !areaInfo.closest_airports) areaInfo.closest_airports = airports
areaInfoOf(area) ==
  LET areaInfo == discoverArea(area.sections, EmptyObject)
      airports == uniqueNames(area.airports, <<>>)
  IN  IF airports # <<>> /\ ~Has(areaInfo, ClosestAirports)
        THEN Spread(areaInfo, [k \in {ClosestAirports} |-> airports])
        ELSE areaInfo

\* The headings.forEach of page.evaluate: items pushed under categoryKey
\* unless an item of that name is there.
RECURSIVE browserAreaInfo(_, _)
browserAreaInfo(sections, areaInfo) ==
  IF sections = <<>> THEN areaInfo
  ELSE LET key   == domCategoryKey(Head(sections).heading)
           known == IF Has(areaInfo, key) THEN areaInfo[key] ELSE <<>>
       IN  browserAreaInfo(Tail(sections),
                           Spread(areaInfo,
                                  [k \in {key} |-> uniqueNames(Head(sections).items, known)]))

\* processEntity: if (!details.name && entity.name) ...; if (!details.address
\* && entity.address?.streetAddress) ...
jsonLdFields(src) ==
  [ name    |-> IF src.ldName THEN "ld" ELSE "null",
    address |-> IF src.ldAddress # "none" THEN "ld" ELSE "null" ]

\* if (!details.name && hotelNameMatch) details.name = ...
fallbackName(src, name) ==
  IF name = "null" /\ src.headerName THEN "html" ELSE name

\* details.address = addressJsonMatch ? ... : addressHtmlMatch ? ... : null
address(src) ==
  IF src.ldAddress = "plain" THEN "ld"
  ELSE IF src.htmlAddress THEN "html" ELSE "null"

\* processEntity: if (entity.geo && !details.coordinates.latitude) { ... }
jsonLdCoordinates(src) ==
  IF src.jsonLdGeo # "none"
    THEN [latitude |-> Num(<<"25.2">>), longitude |-> Num(<<"55.3">>)]
    ELSE [latitude |-> JsNull, longitude |-> JsNull]

\* details.coordinates = { latitude: coordsJsonMatch ? ... : latAttrMatch ?
\* ... : null, longitude: coordsJsonMatch ? ... : lngAttrMatch ? ... : null }
coordinates(src) ==
  [ latitude  |-> IF src.rawJson THEN Num(<<"25.2">>)
                  ELSE IF src.dataLat THEN Num(<<"25.2">>) ELSE JsNull,
    longitude |-> IF src.rawJson THEN Num(<<"55.3">>)
                  ELSE IF src.dataLng THEN Num(<<"55.3">>) ELSE JsNull ]

\* Every cleaned URL pushed, seen before or not.
RECURSIVE extractPhotosNoDedupe(_, _)
extractPhotosNoDedupe(occurrences, photos) ==
  IF occurrences = <<>> \/ Len(photos) >= PhotoLimit THEN photos
  ELSE extractPhotosNoDedupe(Tail(occurrences), Append(photos, Head(occurrences).path))

\* while ((photoMatch = photoRegex.exec(html)) !== null && photos.length < 15)
\*   { url = photoMatch[1].split('?')[0]; if (!photos.includes(url)) push }
RECURSIVE extractPhotos(_, _)
extractPhotos(occurrences, photos) ==
  IF occurrences = <<>> \/ Len(photos) >= PhotoLimit THEN photos
  ELSE LET url == Head(occurrences).path
       IN  extractPhotos(Tail(occurrences),
                         IF ArrayIncludes(photos, url) THEN photos
                         ELSE Append(photos, url))

\* The inner while over the <li> of one group: items is the group's list.
RECURSIVE groupItems(_, _, _)
groupItems(lis, items, allFacilities) ==
  IF lis = <<>> THEN [items |-> items, allFacilities |-> allFacilities]
  ELSE LET item == Head(lis)
       IN  IF item # 0 /\ ~ArrayIncludes(items, item)
             THEN groupItems(Tail(lis), Append(items, item),
                             IF ArrayIncludes(allFacilities, item) THEN allFacilities
                             ELSE Append(allFacilities, item))
             ELSE groupItems(Tail(lis), items, allFacilities)

\* The outer while over the facility groups.
RECURSIVE groupedFacilities(_, _)
groupedFacilities(groups, allFacilities) ==
  IF groups = <<>> THEN allFacilities
  ELSE groupedFacilities(Tail(groups),
                         groupItems(Head(groups), <<>>, allFacilities).allFacilities)

\* for (const fac of knownFacilities) if (html.includes(fac) && !includes) push
RECURSIVE knownFacilities(_, _, _)
knownFacilities(fac, present, allFacilities) ==
  IF fac > NumKnownFacilities THEN allFacilities
  ELSE knownFacilities(fac + 1, present,
                       IF fac \in present /\ ~ArrayIncludes(allFacilities, fac)
                         THEN Append(allFacilities, fac) ELSE allFacilities)

facilities(input) ==
  LET grouped == groupedFacilities(input.groups, <<>>)
      all == IF grouped = <<>>       \* Object.keys(groupedFacilities).length === 0
               THEN knownFacilities(1, input.known, <<>>)
               ELSE grouped
  IN  SubSeq(all, 1, IF Len(all) < FacilityLimit THEN Len(all) ELSE FacilityLimit)

NoDetails ==
  [ name |-> "null", address |-> "null", area_info |-> EmptyObject,
    coordinates |-> [latitude |-> JsNull, longitude |-> JsNull],
    photos |-> <<>>, facilities |-> <<>> ]

\* extractHotelDetailsFromHTML(html)
ExtractHotelDetailsFromHTML ==
  /\ detail.stage = "rendered"
  /\ detail' = [detail EXCEPT
       !.stage = "extracted",
       !.ldCoordinates = jsonLdCoordinates(detail.html.coords),
       !.ldFields = jsonLdFields(detail.html.fields),
       !.details = [ name |-> fallbackName(detail.html.fields,
                                           jsonLdFields(detail.html.fields).name),
                     address |-> address(detail.html.fields),
                     area_info |-> areaInfoOf(detail.html.area),
                     coordinates |-> coordinates(detail.html.coords),
                     photos      |-> extractPhotos(detail.html.photos, <<>>),
                     facilities  |-> facilities(detail.html.facilities) ]]
  /\ UNCHANGED <<reqVars, http, builds, canon, page, overlay, conc, auth>>

\* scrapeHotelDetailsWithPuppeteer after the extraction: page.evaluate over
\* the headings, then details.area_info = { ...details.area_info,
\* ...browserAreaInfo } when it is not null.
MergeBrowserAreaInfo ==
  /\ detail.stage = "extracted"
  /\ LET found == browserAreaInfo(detail.html.area.sections, EmptyObject)
     IN  detail' = [detail EXCEPT
           !.stage = "merged",
           !.details.area_info = IF DOMAIN found # {} THEN Spread(@, found) ELSE @]
  /\ UNCHANGED <<reqVars, http, builds, canon, page, overlay, conc, auth>>

InitDetail ==
  /\ RequestIdle
  /\ http = Idle
  /\ builds = Idle
  /\ canon = Idle
  /\ page = Idle
  /\ detail \in [ stage : {"rendered"}, html : HotelPages,
                  ldCoordinates : {NoDetails.coordinates},
                  ldFields : {jsonLdFields(NoFields)}, details : {NoDetails} ]
  /\ overlay = Idle
  /\ conc = Idle
  /\ auth = Idle

NextDetail ==
  \/ ExtractHotelDetailsFromHTML
  \/ MergeBrowserAreaInfo

SpecDetail == InitDetail /\ [][NextDetail]_vars

\* C19: in every extracted detail, latitude and longitude are both null or
\* both populated, for every combination of coordinate sources.
C19_CoordinatesBothOrNeither ==
  detail.stage = "extracted" =>
    (detail.details.coordinates.latitude = JsNull
       <=> detail.details.coordinates.longitude = JsNull)

NoDuplicate(a) == \A i, j \in 1..Len(a) : a[i] = a[j] => i = j

\* C20: in every extracted detail, photos has no duplicate and at most 15
\* entries, and facilities has no duplicate and at most 30 entries.
C20_PhotosFacilitiesBounded ==
  detail.stage = "extracted" =>
    /\ NoDuplicate(detail.details.photos)
    /\ Len(detail.details.photos) <= PhotoLimit
    /\ NoDuplicate(detail.details.facilities)
    /\ Len(detail.details.facilities) <= FacilityLimit

\* A page with more than 15 photos, each in two sizes, and more than 30
\* facility labels in two groups sharing one, gave 15 photos and 30
\* facilities.
C20_Witness ==
  /\ detail.stage = "extracted"
  /\ Len(detail.html.photos) > 2 * PhotoLimit
  /\ ~NoDuplicate([i \in 1..Len(detail.html.photos) |-> detail.html.photos[i].path])
  /\ Len(detail.html.facilities.groups) = 2
  /\ Len(detail.html.facilities.groups[1]) + Len(detail.html.facilities.groups[2])
       > FacilityLimit + 1
  /\ ArrayIncludes(detail.html.facilities.groups[2],
                   detail.html.facilities.groups[1][Len(detail.html.facilities.groups[1])])
  /\ Len(detail.details.photos) = PhotoLimit
  /\ Len(detail.details.facilities) = FacilityLimit


\* The body of a search request names a valid location and nothing else.
LocationOnly ==
  /\ http.path = "hotels"
  /\ http.body.location.type = "string"
  /\ Trim(http.body.location.text) # <<>>
  /\ http.body.checkin = Undefined
  /\ http.body.checkout = Undefined

\* C21: a search request whose body holds only a valid location is accepted
\* by every entry point: once handled, the scraper has been called for it and
\* it is never answered with the 400 error.
C21_LocationOnlyAccepted ==
  (LocationOnly /\ http.stage # "received") =>
    /\ http.scraper = "scrapeBookingHotels"
    /\ http.status # 400


\* C22: in every successful search response, hotels is the array of records
\* the scraper produced and count is the length of that array, in every
\* entry point.
C22_CountMatchesHotels ==
  (http.stage = "responded" /\ http.path = "hotels" /\ http.status = 200) =>
    /\ http.response.hotels = Array(http.result.items)
    /\ http.response.count = [defined |-> TRUE, n |-> Len(http.result.items)]


\* C23: in every extracted detail, a field the JSON-LD stage has set (name,
\* address, coordinates) keeps that value: no later stage changes it or
\* resets it to null.
C23_EarlierStageKept ==
  detail.stage = "extracted" =>
    /\ detail.ldFields.name # "null" => detail.details.name = detail.ldFields.name
    /\ detail.ldFields.address # "null"
         => detail.details.address = detail.ldFields.address
    /\ detail.ldCoordinates.latitude # JsNull
         => detail.details.coordinates = detail.ldCoordinates


\* How many entries of a list carry a name.
Occurrences(list, name) == Cardinality({i \in 1..Len(list) : list[i] = name})

\* C24: after the HTML extraction every airport of the structured
\* title/subtitle data appears in area_info.closest_airports exactly once,
\* also when heading discovery had produced a closest_airports entry.
C24_AirportsMerged ==
  detail.stage = "extracted" =>
    \A i \in 1..Len(detail.html.area.airports) :
      /\ Has(detail.details.area_info, ClosestAirports)
      /\ Occurrences(detail.details.area_info[ClosestAirports],
                     detail.html.area.airports[i]) = 1

\* C25: the two paths derive the same key from every heading of the page:
\* once the browser's area info is merged, no heading of the page is under
\* two different keys of area_info.
C25_SameCategoryKey ==
  detail.stage = "merged" =>
    \A i \in 1..Len(detail.html.area.sections) :
      LET heading == detail.html.area.sections[i].heading
      IN  (/\ Has(detail.details.area_info, categoryToKey(heading))
           /\ Has(detail.details.area_info, domCategoryKey(heading)))
            => categoryToKey(heading) = domCategoryKey(heading)


(***************************************************************************)
(* dismissOverlays (src/scraper/booking.js:600-623): one call against one  *)
(* loaded page.  The page decides which selectors find a button, which     *)
(* queries throw and which clicks throw.                                   *)
(***************************************************************************)
overlaySelectors ==
  << "[id*=cookie] button", "[class*=cookie] button",
     "[aria-label*=cookie i] button", "[data-testid=accept-btn]",
     "button[id*=accept]", "button[class*=accept]", "[id*=consent] button",
     "#onetrust-accept-btn-handler", "button[aria-label=Dismiss]",
     "[data-testid=selection-item-close]" >>

\* The most selectors of the list that find a button on one page.
MaxMatching == 2

\* The pages a call can meet: the positions whose selector finds a button,
\* the positions whose query throws, the buttons whose click throws.
OverlayPages ==
  UNION { UNION { { [ matching |-> m, queryThrows |-> q, clickThrows |-> c ] :
                      c \in SUBSET m } :
                  q \in { {} } \cup { {i} : i \in (1..Len(overlaySelectors)) \ m } } :
          m \in { s \in SUBSET (1..Len(overlaySelectors)) :
                    Cardinality(s) <= MaxMatching } }

InitOverlays ==
  /\ RequestIdle
  /\ http = Idle
  /\ builds = Idle
  /\ canon = Idle
  /\ page = Idle
  /\ detail = Idle
  /\ conc = Idle
  /\ auth = Idle
  /\ overlay \in [ stage : {"scanning"}, dom : OverlayPages, selector : {1},
                   clicks : {<< >>}, thrown : {FALSE} ]

\* One turn of the loop whose query finds nothing or throws: the catch
\* swallows the error and the loop goes on.
dismissOverlays_NoButton ==
  /\ overlay.stage = "scanning"
  /\ overlay.selector <= Len(overlaySelectors)
  /\ overlay.selector \notin overlay.dom.matching
  /\ overlay' = [overlay EXCEPT !.selector = @ + 1]
  /\ UNCHANGED <<reqVars, http, builds, canon, page, detail, conc, auth>>

\* One turn of the loop whose query finds a button: the button is clicked;
\* a throwing click is swallowed by the catch; the loop goes on either way.
dismissOverlays_Click ==
  /\ overlay.stage = "scanning"
  /\ overlay.selector <= Len(overlaySelectors)
  /\ overlay.selector \in overlay.dom.matching
  /\ overlay' = [overlay EXCEPT !.selector = @ + 1,
                                !.clicks = Append(@, overlay.selector)]
  /\ UNCHANGED <<reqVars, http, builds, canon, page, detail, conc, auth>>

\* The list is exhausted: the call resolves with no value.
dismissOverlays_Return ==
  /\ overlay.stage = "scanning"
  /\ overlay.selector > Len(overlaySelectors)
  /\ overlay' = [overlay EXCEPT !.stage = "returned"]
  /\ UNCHANGED <<reqVars, http, builds, canon, page, detail, conc, auth>>

NextOverlays ==
  \/ dismissOverlays_NoButton
  \/ dismissOverlays_Click
  \/ dismissOverlays_Return

SpecOverlays == InitOverlays /\ [][NextOverlays]_vars

\* The lowest position of the list whose selector finds a button.
FirstMatch(matching) == CHOOSE i \in matching : \A j \in matching : i <= j

\* C26: dismissOverlays clicks only the first selector of its list that
\* matches: a call issues at most one click, that click is on the first
\* matching selector, no click is issued when nothing matches, and no error
\* of a query or a click reaches the caller.
C26_ClicksOnlyFirstMatch ==
  overlay.stage # "idle" =>
  /\ Len(overlay.clicks) <= 1
  /\ overlay.thrown = FALSE
  /\ overlay.dom.matching = {} => overlay.clicks = << >>
  /\ overlay.clicks # << >> => overlay.clicks[1] = FirstMatch(overlay.dom.matching)


(***************************************************************************)
(* Concurrent browser-driven calls in one process.  Each call of           *)
(* scrapeWithPuppeteer (booking.js:259-540) or                             *)
(* scrapeHotelDetailsWithPuppeteer (booking.js:1353-1641) declares its own *)
(* `let browser`, assigns it from launch/connect before the try block and  *)
(* closes it in the finally clause; calls interleave at every await.       *)
(***************************************************************************)
\* The number of calls in flight at once.
MaxRequests == 2

BrowserCalls == {"scrapeWithPuppeteer", "scrapeHotelDetailsWithPuppeteer"}

\* A mutation of BrowserOf: `browser` kept at module level, so that every
\* call reads the session assigned last.
BrowserShared(r) == Len(conc.sessions)

\* The value of the call's own `let browser` (266, 1356).
BrowserOf(r) == conc.calls[r].browser

InitConcurrent ==
  /\ RequestIdle
  /\ http = Idle
  /\ builds = Idle
  /\ canon = Idle
  /\ page = Idle
  /\ detail = Idle
  /\ overlay = Idle
  /\ auth = Idle
  /\ conc \in [ stage : {"running"},
                calls : [ 1..MaxRequests ->
                            [ fn : BrowserCalls, pos : {"launch"},
                              browser : {0}, outcome : {"pending"} ] ],
                sessions : {<< >>},
                overlapped : {FALSE} ]

ConcFrame == UNCHANGED <<reqVars, http, builds, canon, page, detail, overlay, auth>>

\* browser = await puppeteer.launch(...) / puppeteerCore.connect(...): the
\* await rejects before any session exists, or a new session is assigned to
\* the call's own variable.
concurrent_Launch(r) ==
  /\ conc.stage = "running"
  /\ conc.calls[r].pos = "launch"
  /\ \/ conc' = [conc EXCEPT !.calls[r].pos = "done",
                             !.calls[r].outcome = "thrown"]
     \/ conc' = [conc EXCEPT
                   !.sessions = Append(@, [ owner |-> r, usedBy |-> {},
                                            closedBy |-> {}, closes |-> 0 ]),
                   !.calls[r].browser = Len(conc.sessions) + 1,
                   !.calls[r].pos = "newPage",
                   !.overlapped = @ \/ \E i \in 1..Len(conc.sessions) :
                                          conc.sessions[i].closes = 0]
  /\ ConcFrame

\* const page = await browser.newPage(): the first statement of the try
\* block; a rejection goes to the finally clause.
concurrent_NewPage(r) ==
  /\ conc.stage = "running"
  /\ conc.calls[r].pos = "newPage"
  /\ \E next \in {"extract", "closing"} :
       conc' = [conc EXCEPT
                  !.sessions[BrowserOf(r)].usedBy = @ \cup {r},
                  !.calls[r].pos = next,
                  !.calls[r].outcome = IF next = "closing" THEN "thrown" ELSE @]
  /\ ConcFrame

\* The page work of the try block (navigation, waits, extraction), all on
\* the page of the call's own session: it returns or throws.
concurrent_Extract(r) ==
  /\ conc.stage = "running"
  /\ conc.calls[r].pos = "extract"
  /\ \E out \in {"returned", "thrown"} :
       conc' = [conc EXCEPT
                  !.sessions[BrowserOf(r)].usedBy = @ \cup {r},
                  !.calls[r].pos = "closing",
                  !.calls[r].outcome = out]
  /\ ConcFrame

\* finally { await browser.close(); }
concurrent_Close(r) ==
  /\ conc.stage = "running"
  /\ conc.calls[r].pos = "closing"
  /\ conc' = [conc EXCEPT
                !.sessions[BrowserOf(r)].closedBy = @ \cup {r},
                !.sessions[BrowserOf(r)].closes = @ + 1,
                !.calls[r].pos = "done"]
  /\ ConcFrame

NextConcurrent ==
  \E r \in 1..MaxRequests :
    \/ concurrent_Launch(r)
    \/ concurrent_NewPage(r)
    \/ concurrent_Extract(r)
    \/ concurrent_Close(r)

SpecConcurrent == InitConcurrent /\ [][NextConcurrent]_vars

AllCallsDone == \A r \in 1..MaxRequests : conc.calls[r].pos = "done"

\* C27: with several browser-driven calls in flight, every session is used
\* and closed by the call that opened it and by no other, no session is
\* closed twice, two calls never hold the same session, and once every call
\* has completed every opened session has been closed exactly once.
C27_SessionsOwned ==
  conc.stage = "running" =>
    /\ \A i \in 1..Len(conc.sessions) :
         /\ conc.sessions[i].usedBy \subseteq {conc.sessions[i].owner}
         /\ conc.sessions[i].closedBy \subseteq {conc.sessions[i].owner}
         /\ conc.sessions[i].closes <= 1
         /\ conc.calls[conc.sessions[i].owner].browser = i
    /\ \A r \in 1..MaxRequests :
         conc.calls[r].browser # 0 =>
           conc.sessions[conc.calls[r].browser].owner = r
    /\ AllCallsDone =>
         \A i \in 1..Len(conc.sessions) : conc.sessions[i].closes = 1

\* Two calls held open sessions at the same time, both were used, and every
\* call has completed.
C27_Witness ==
  /\ conc.stage = "running"
  /\ AllCallsDone
  /\ conc.overlapped
  /\ Len(conc.sessions) >= 2
  /\ \A i \in 1..Len(conc.sessions) : conc.sessions[i].usedBy # {}


-----------------------------------------------------------------------------
(* How a search request ends (booking.js:647-719).                         *)

SearchDone == cfg.request = "search" /\ pc = "done"

\* The request was ended by an error: no backend was available, the
\* Puppeteer call that nothing guards threw (first attempt, or fallback
\* from Zyte), or Zyte failed in serverless where no fallback exists.
EndedByError ==
  \/ calls = << >>
  \/ LastCall.fn = "scrapeWithPuppeteer" /\ LastCall.out = "throw"
  \/ /\ ZyteFirst(cfg) /\ cfg.isServerless
     /\ LastCall.out \in {"throw", "bare"}

\* The message of the error that ended the request.
EndingMessage ==
  IF calls = << >> THEN NoServiceMsg
  ELSE IF LastCall.fn = "scrapeWithPuppeteer" THEN LastCall.error
  ELSE IF LastCall.out = "bare" THEN NoFallbackPrefix \o TypeErrorLength
  ELSE NoFallbackPrefix \o LastCall.error

\* C28: scrapeBookingHotels never rejects.  Whatever the configuration and
\* the backends' outcomes, the request resolves with a hotels array and a
\* debugInfo object; when an error ended the request, hotels is empty and
\* debugInfo.error is that error's message; otherwise debugInfo carries the
\* method, the url and the count of the hotels returned.
C28_NeverRejects ==
  SearchDone =>
    /\ result.status = "resolved"
    /\ DOMAIN result.hotels = 1..Len(result.hotels)
    /\ DOMAIN result.debugInfo # {}
    /\ IF EndedByError
         THEN /\ result.hotels = << >>
              /\ Has(result.debugInfo, "error")
              /\ result.debugInfo.error = EndingMessage
         ELSE /\ Has(result.debugInfo, "count")
              /\ result.debugInfo.count = Len(result.hotels)

\* A request whose Zyte attempt returned the bare array and whose Puppeteer
\* fallback then threw has resolved.
C28_Witness ==
  /\ SearchDone
  /\ Len(calls) = 2
  /\ calls[1].out = "bare"
  /\ calls[2].out = "throw"


\* The fail-safe retry has settled without bringing a hotel: it threw,
\* returned the bare array, or returned an empty hotels list.
RetryBroughtNothing ==
  /\ Awaiting("await688")
  /\ ~(ret.kind = "return" /\ ret.hotels # << >>)

\* C29: in the Puppeteer-first path, when the fail-safe Zyte retry throws or
\* yields zero records, the step that ends the request leaves hotels and
\* debugInfo as the first attempt set them, and the request resolves with
\* those hotels and with that debugInfo under the method, url and count
\* fields: no was_fallback flag, no original_debug, nothing of the retry's
\* error.
C29_RetryFailureKeepsFirst ==
  [][ RetryBroughtNothing =>
        /\ hotels' = hotels
        /\ debugInfo' = debugInfo
        /\ result'.status = "resolved"
        /\ result'.hotels = hotels
        /\ result'.debugInfo =
             Spread([ method |-> "puppeteer", url |-> "searchURL", count |-> 0 ],
                    debugInfo)
        /\ ~Has(result'.debugInfo, "was_fallback")
        /\ ~Has(result'.debugInfo, "original_debug")
        /\ Has(result'.debugInfo, "error") => result'.debugInfo.error # ret.error ]_vars

\* A Puppeteer-first request whose fail-safe retry threw has resolved.
C29_Witness ==
  /\ SearchDone
  /\ PuppeteerFirst(cfg)
  /\ Len(calls) = 2
  /\ calls[2].fn = "scrapeWithZyte"
  /\ calls[2].out = "throw"


(***************************************************************************)
(* The password-reset endpoints of the local server                        *)
(* (src/unnamed/part_000:463-532).  Each handler awaits parseBody and then *)
(* runs to its response without another await, so a handler is one step.   *)
(***************************************************************************)
ResetEmails == { Str(<<"a@example.com">>), Str(<<"b@example.com">>) }

\* Math.floor(100000 + Math.random() * 900000).toString()
IssuedCodes == { Str(<<"482193">>), Str(<<"907356">>) }

\* 15 * 60 * 1000 ms, in ticks of the model's clock
CodeLifetime == 2

\* The last instant of the clock.
MaxClock == 3

\* resetCodes.get(email) of an email that has no entry
NoStored == [present |-> FALSE, code |-> Undefined, expires |-> 0]

\* What the history says of an email: the code issued last, if any, its
\* expiry, and whether a reset has consumed it.
NeverIssued == [any |-> FALSE, code |-> Undefined, expires |-> 0, used |-> FALSE]

NoRequest ==
  [ op |-> "none", email |-> Undefined, code |-> Undefined, status |-> 0,
    at |-> 0, valid |-> FALSE, kept |-> TRUE ]

\* A mutation of resetCodesDelete: the entry stays after a successful reset.
resetCodesKeep(store, email) == store

\* resetCodes.delete(email)
resetCodesDelete(store, email) == [store EXCEPT ![email] = NoStored]

\* resetCodes.set(email, { code, expires: Date.now() + 15 * 60 * 1000 })
resetCodesSet(store, email, code, now) ==
  [store EXCEPT ![email] =
     [present |-> TRUE, code |-> code, expires |-> now + CodeLifetime]]

\* !stored || stored.code !== code || Date.now() > stored.expires
InvalidOrExpired(stored, code, now) ==
  \/ ~stored.present
  \/ stored.code # code
  \/ now > stored.expires

InitReset ==
  /\ RequestIdle
  /\ http = Idle
  /\ builds = Idle
  /\ canon = Idle
  /\ page = Idle
  /\ detail = Idle
  /\ overlay = Idle
  /\ conc = Idle
  /\ auth = [ stage |-> "serving",
              resetCodes |-> [e \in ResetEmails |-> NoStored],
              now |-> 0,
              issued |-> [e \in ResetEmails |-> NeverIssued],
              last |-> NoRequest ]

ResetFrame == UNCHANGED <<reqVars, http, builds, canon, page, detail, overlay, conc>>

\* The code most recently issued for the email is the supplied one, no
\* reset has consumed it, and it has not expired.
ValidNow(email, code) ==
  /\ email \in ResetEmails
  /\ auth.issued[email].any
  /\ ~auth.issued[email].used
  /\ auth.issued[email].code = code
  /\ auth.now <= auth.issued[email].expires

\* part_000:468-498
handleForgotPasswordEndpoint ==
  /\ auth.stage = "serving"
  /\ \E email \in ResetEmails \cup {Undefined}, parsed \in BOOLEAN :
       LET served(status) ==
             [NoRequest EXCEPT !.op = "forgot", !.email = email,
                               !.status = status, !.at = auth.now]
       IN  IF ~parsed
             THEN auth' = [auth EXCEPT !.last = served(500)]
           ELSE IF ~Truthy(email)
             THEN auth' = [auth EXCEPT !.last = served(400)]
           ELSE \E code \in IssuedCodes :
                  auth' = [auth EXCEPT
                     !.resetCodes = resetCodesSet(@, email, code, auth.now),
                     !.issued[email] = [ any |-> TRUE, code |-> code,
                                         expires |-> auth.now + CodeLifetime,
                                         used |-> FALSE ],
                     !.last = [served(200) EXCEPT !.code = code]]
  /\ ResetFrame

\* part_000:503-532
handleResetPasswordEndpoint ==
  /\ auth.stage = "serving"
  /\ \E email \in ResetEmails \cup {Undefined},
        code \in IssuedCodes \cup {Num(<<"482193">>), Undefined},
        newPassword \in {Str(<<"secret">>), Undefined},
        parsed \in BOOLEAN :
       LET served(status) ==
             [NoRequest EXCEPT !.op = "reset", !.email = email, !.code = code,
                               !.status = status, !.at = auth.now,
                               !.valid = ValidNow(email, code)]
       IN  IF ~parsed
             THEN auth' = [auth EXCEPT !.last = served(500)]
           ELSE IF ~Truthy(email) \/ ~Truthy(code) \/ ~Truthy(newPassword)
             THEN auth' = [auth EXCEPT !.last = served(400)]
           ELSE IF InvalidOrExpired(auth.resetCodes[email], code, auth.now)
             THEN auth' = [auth EXCEPT !.last = served(400)]
           ELSE auth' = [auth EXCEPT
                  !.resetCodes = resetCodesDelete(@, email),
                  !.issued[email].used = TRUE,
                  !.last = [served(200) EXCEPT
                              !.kept = resetCodesDelete(auth.resetCodes, email)
                                         = auth.resetCodes]]
  /\ ResetFrame

\* Date.now() advances between requests.
ClockTick ==
  /\ auth.stage = "serving"
  /\ auth.now < MaxClock
  /\ auth' = [auth EXCEPT !.now = @ + 1]
  /\ ResetFrame

NextReset ==
  \/ handleForgotPasswordEndpoint
  \/ handleResetPasswordEndpoint
  \/ ClockTick

SpecReset == InitReset /\ [][NextReset]_vars

====
